---- MODULE Spec2Model ----
(***************************************************************************)
(* Model of the debugger engine of Rkernel (src/debugger/RDebugger.cpp):   *)
(* breakpoint store, stepping commands, run-to-position, the breakpoint    *)
(* decision (doBreakpoint) and the instrumented block evaluator (doBegin). *)
(*                                                                         *)
(* Every engine function is an operator from an engine state (a record of  *)
(* all fields the function can read or write) to the engine state after    *)
(* the call, so that a function calling another one is the composition the *)
(* code performs.  An action applies one operator to the current state.    *)
(***************************************************************************)
EXTENDS Integers, Sequences, FiniteSets, TLC

\* ---------------------------------------------------------------- bounds
NumTargets == 2      \* step srcref objects the resolver can hand out
NumEnvs    == 2      \* environment objects
MaxDepth   == 3      \* entries of the interpreter's context chain
MaxStmts   == 2      \* statements of one block

\* ------------------------------------------------------------ value sets
Files   == {"a.r"}
Lines   == {1, 2}                         \* lines the host names
Keys    == Files \X Lines                 \* (file, line)
Targets == 1..NumTargets                  \* srcref objects (SEXP identity)
Ids     == 1..(Cardinality(Keys) + 1)     \* BreakpointInfo identity (address)
Envs    == 1..NumEnvs
Nil     == 0                              \* R_NilValue
NullPtr == 0                              \* nullptr
NoEntry == [absent |-> TRUE]              \* map has no element for the key

Commands == {"CONTINUE", "STEP_INTO", "FORCE_STEP_INTO", "STEP_OVER",
             "STEP_OUT", "PAUSE", "STOP"}

\* Expression texts, by what evaluating them does.
CondTexts == {"", "T", "F", "ERR"}        \* empty, TRUE, FALSE, raises RError
LogTexts  == {"", "OK", "ERR"}            \* empty, prints, raises RError

\* srcrefToPosition: the (file, line) a srcref object itself carries.  Two
\* srcref objects can carry the same position (a file parsed twice).
\* Internal stands for the srcref objects of code that is not in a physical
\* file (generated or library code); the resolver never hands it out.
Internal == NumTargets + 1
Srcrefs  == Targets \cup {Internal}
srcrefToPosition(t) ==
  IF t \in Targets THEN <<"a.r", ((t - 1) % Cardinality(Lines)) + 1>> ELSE <<"", 0>>

\* isPhysicalFileFlag of the srcfile of a srcref (R_NilValue has none).
isPhysicalFile(srcref) == srcref \in Targets

VARIABLES
  breakpoints,          \* RDebugger::breakpoints : key -> InternalBreakpointInfo
  rdebug,               \* RDEBUG bit of every srcref
  bpAttr,               \* breakpointInfoAttr of every srcref (info address)
  resolver,             \* sourceFileManager's current (file, line) -> srcref
  currentCommand,       \* RDebugger::currentCommand
  runToPositionTarget,  \* RDebugger::runToPositionTarget
  breakpointsMuted,     \* RDebugger::breakpointsMuted
  isEnabled,            \* RDebugger::_isEnabled
  funTab,               \* the function in the `{` slot of R_FunTab
  prevDoBegin,          \* RDebugger::prevDoBegin
  jit,                  \* the interpreter's JIT level
  prevJIT,              \* RDebugger::prevJIT
  interruptsPending,    \* R_interrupts_pending
  stopHereFlag,         \* stopHereFlagAttr of every environment
  contexts,             \* interpreter context chain and active blocks
  R_Srcref,             \* the interpreter's current srcref
  stackBottomAttr,      \* stackBottomAttr of every environment
  realEnvAttr,          \* realEnvAttr of every environment
  stack,                \* RDebugger::stack
  lastErrorStackDump,   \* RDebugger::lastErrorStackDump
  pc,                   \* "run", or "prompt" inside debugPromptHandler
  obs                   \* what the last engine call did (history variable)

vars == <<breakpoints, rdebug, bpAttr, resolver, currentCommand,
          runToPositionTarget, breakpointsMuted, isEnabled, funTab,
          prevDoBegin, jit, prevJIT, interruptsPending, stopHereFlag,
          contexts, R_Srcref, stackBottomAttr, realEnvAttr, stack,
          lastErrorStackDump, pc, obs>>

\* The engine state as one value.
State ==
  [breakpoints |-> breakpoints, rdebug |-> rdebug, bpAttr |-> bpAttr,
   resolver |-> resolver, currentCommand |-> currentCommand,
   runToPositionTarget |-> runToPositionTarget,
   breakpointsMuted |-> breakpointsMuted, isEnabled |-> isEnabled,
   funTab |-> funTab, prevDoBegin |-> prevDoBegin, jit |-> jit,
   prevJIT |-> prevJIT, interruptsPending |-> interruptsPending,
   stopHereFlag |-> stopHereFlag, contexts |-> contexts,
   R_Srcref |-> R_Srcref, stackBottomAttr |-> stackBottomAttr,
   realEnvAttr |-> realEnvAttr, stack |-> stack,
   lastErrorStackDump |-> lastErrorStackDump, pc |-> pc, obs |-> obs]

Commit(s) ==
  /\ breakpoints' = s.breakpoints
  /\ rdebug' = s.rdebug
  /\ bpAttr' = s.bpAttr
  /\ resolver' = s.resolver
  /\ currentCommand' = s.currentCommand
  /\ runToPositionTarget' = s.runToPositionTarget
  /\ breakpointsMuted' = s.breakpointsMuted
  /\ isEnabled' = s.isEnabled
  /\ funTab' = s.funTab
  /\ prevDoBegin' = s.prevDoBegin
  /\ jit' = s.jit
  /\ prevJIT' = s.prevJIT
  /\ interruptsPending' = s.interruptsPending
  /\ stopHereFlag' = s.stopHereFlag
  /\ contexts' = s.contexts
  /\ R_Srcref' = s.R_Srcref
  /\ stackBottomAttr' = s.stackBottomAttr
  /\ realEnvAttr' = s.realEnvAttr
  /\ stack' = s.stack
  /\ lastErrorStackDump' = s.lastErrorStackDump
  /\ pc' = s.pc
  /\ obs' = s.obs

\* ------------------------------------------------------- history variable
\* obs records, for the engine call the last action made: which call, its
\* argument, its return value and what it did on the way.
\* run is the activation of doBegin at the bottom of the chain: n the
\* number of its statements, i the index of the statement its loop is at,
\* at the place in the loop body ("decide": before the breakpoint decision,
\* "eval": before Rf_eval, "return": after the loop), s its local s, evals
\* the statements it has evaluated with their values, in order, and
\* prompts counts the suspensions at its decisions.
NoRun ==
  [n |-> 0, i |-> 0, at |-> "none", s |-> Nil, evals |-> <<>>,
   prompts |-> 0]

NoObs ==
  [op |-> "init", key |-> <<"", 0>>, ret |-> NullPtr, resolves |-> 0,
   bpCalls |-> 0, conds |-> 0, logs |-> 0, messages |-> 0, prompts |-> 0,
   interrupts |-> 0, aborted |-> FALSE, target |-> Nil, bp |-> NullPtr, stepStop |-> FALSE,
   dangling |-> FALSE, cmd |-> "", pre |-> FALSE, old |-> Nil,
   raced |-> FALSE, nested |-> 0, builds |-> 0, frames |-> <<>>,
   reset |-> Nil, run |-> NoRun, value |-> Nil]

\* raced outlives the call: it says that the command now current is a STOP
\* which a decision has met while another interrupt was pending.  run
\* outlives it too: it is the state of an activation.
Begin(s, op, key) ==
  [s EXCEPT !.obs = [NoObs EXCEPT !.op = op, !.key = key,
                                  !.raced = s.obs.raced,
                                  !.run = s.obs.run]]
NoKey == <<"", 0>>

\* ------------------------------------------------------ breakpoint store
\* sourceFileManager.getStepSrcref(file, line)
getStepSrcref(s, key) ==
  [val |-> s.resolver[key],
   st  |-> [s EXCEPT !.obs.resolves = @ + 1]]

\* SET_RDEBUG(srcref, v); on R_NilValue it touches no srcref object.
SET_RDEBUG(s, srcref, v) ==
  IF srcref = Nil THEN s ELSE [s EXCEPT !.rdebug[srcref] = v]

\* setBreakpointInfoAttrib(srcref, info)
setBreakpointInfoAttrib(s, srcref, info) ==
  IF srcref = Nil THEN s ELSE [s EXCEPT !.bpAttr[srcref] = info]

\* getBreakpointInfoAttrib(srcref): only the srcref objects the resolver
\* hands out ever get the attribute.
getBreakpointInfoAttrib(s, srcref) ==
  IF srcref \in Targets THEN s.bpAttr[srcref] ELSE NullPtr

\* Addresses of the BreakpointInfo objects the store owns.
OwnedIds(bps) == {bps[k].id : k \in {x \in Keys : bps[x] # NoEntry}}

\* InternalBreakpointInfo(): a default BreakpointInfo at a fresh address.
InternalBreakpointInfo(id) ==
  [id |-> id, srcref |-> Nil, condition |-> "", evaluateAndLog |-> "",
   suspend |-> TRUE]

\* addBreakpoint resolving and arming again when the entry exists.
addBreakpointAgain(s, key, id) ==
  LET r  == getStepSrcref(s, key)
      i  == IF s.breakpoints[key] # NoEntry THEN s.breakpoints[key].id ELSE id
      e  == IF s.breakpoints[key] # NoEntry THEN s.breakpoints[key]
            ELSE InternalBreakpointInfo(id)
      s1 == [r.st EXCEPT !.breakpoints[key] = [e EXCEPT !.srcref = r.val]]
      s2 == IF r.val # Nil
            THEN setBreakpointInfoAttrib(SET_RDEBUG(s1, r.val, TRUE), r.val, i)
            ELSE s1
  IN [s2 EXCEPT !.obs.ret = i]

\* RDebugger::addBreakpoint(file, line); id is the address the allocator
\* gives the map node when one is inserted.
addBreakpoint(s, key, id) ==
  IF s.breakpoints[key] # NoEntry
  THEN [s EXCEPT !.obs.ret = s.breakpoints[key].id]
  ELSE LET r   == getStepSrcref(s, key)
           s1  == [r.st EXCEPT !.breakpoints[key] =
                     [InternalBreakpointInfo(id) EXCEPT !.srcref = r.val]]
           s2  == IF r.val # Nil
                  THEN setBreakpointInfoAttrib(SET_RDEBUG(s1, r.val, TRUE),
                                               r.val, id)
                  ELSE s1
       IN [s2 EXCEPT !.obs.ret = id]

\* removeBreakpoint erasing the entry without detaching it from its srcref.
removeBreakpointNoDetach(s, key) ==
  IF s.breakpoints[key] = NoEntry THEN s
  ELSE [s EXCEPT !.breakpoints[key] = NoEntry]

\* removeBreakpoint leaving the RDEBUG bit of the srcref set.
removeBreakpointKeepArmed(s, key) ==
  IF s.breakpoints[key] = NoEntry THEN s
  ELSE LET t  == s.breakpoints[key].srcref
           s1 == setBreakpointInfoAttrib(s, t, NullPtr)
       IN [s1 EXCEPT !.breakpoints[key] = NoEntry]

\* RDebugger::removeBreakpoint(file, line)
removeBreakpoint(s, key) ==
  IF s.breakpoints[key] = NoEntry THEN s
  ELSE LET t  == s.breakpoints[key].srcref
           s1 == setBreakpointInfoAttrib(s, t, NullPtr)
           s2 == SET_RDEBUG(s1, t, FALSE)
       IN [s2 EXCEPT !.breakpoints[key] = NoEntry]

\* refreshBreakpoint leaving the old srcref armed and attached.
refreshBreakpointKeepOld(s, key) ==
  IF s.breakpoints[key] = NoEntry THEN s
  ELSE LET r  == getStepSrcref(s, key)
           s3 == [r.st EXCEPT !.breakpoints[key].srcref = r.val]
       IN IF r.val # Nil
          THEN setBreakpointInfoAttrib(SET_RDEBUG(s3, r.val, TRUE), r.val,
                                       s3.breakpoints[key].id)
          ELSE s3

\* RDebugger::refreshBreakpoint(file, line)
refreshBreakpoint(s, key) ==
  IF s.breakpoints[key] = NoEntry THEN s
  ELSE LET t  == s.breakpoints[key].srcref
           s1 == setBreakpointInfoAttrib(s, t, NullPtr)
           s2 == SET_RDEBUG(s1, t, FALSE)
           r  == getStepSrcref(s2, key)
           s3 == [r.st EXCEPT !.breakpoints[key].srcref = r.val]
       IN IF r.val # Nil
          THEN setBreakpointInfoAttrib(SET_RDEBUG(s3, r.val, TRUE), r.val,
                                       s3.breakpoints[key].id)
          ELSE s3

\* RDebugger::muteBreakpoints(mute)
muteBreakpoints(s, mute) == [s EXCEPT !.breakpointsMuted = mute]

\* ------------------------------------------------------ enable / disable
\* The two functions the `{` slot of the function table can hold.
do_begin     == "do_begin"        \* the interpreter's own primitive
debugDoBegin == "debugDoBegin"    \* the wrapper calling RDebugger::doBegin
NoFunction   == "nullptr"         \* prevDoBegin before the first enable()
JitLevels    == 0..3

\* enable() without its guard: a second enable() saves the wrapper as the
\* original primitive.
enableUnguarded(s) ==
  [s EXCEPT !.isEnabled = TRUE,
            !.prevJIT = s.jit,
            !.jit = 0,
            !.prevDoBegin = s.funTab,
            !.funTab = debugDoBegin]

\* RDebugger::enable()
enable(s) ==
  IF s.isEnabled THEN s
  ELSE [s EXCEPT !.isEnabled = TRUE,
                 !.prevJIT = s.jit,          \* compilerEnableJIT(0) returns
                 !.jit = 0,                  \* the previous level
                 !.prevDoBegin = s.funTab,
                 !.funTab = debugDoBegin]

\* disable() that leaves the wrapper in the slot.
disableKeepsWrapper(s) ==
  IF ~s.isEnabled THEN s
  ELSE [s EXCEPT !.isEnabled = FALSE,
                 !.jit = s.prevJIT]

\* RDebugger::disable()
disable(s) ==
  IF ~s.isEnabled THEN s
  ELSE [s EXCEPT !.isEnabled = FALSE,
                 !.funTab = s.prevDoBegin,
                 !.jit = s.prevJIT]

\* ------------------------------------------------------- context chain
\* contexts is the interpreter's context chain, innermost first
\* (getGlobalContext() is its head, getNextContext() its tail), with the
\* running activations of doBegin in between at the place they run:
\*   kind "call"  : a function call context: env its environment, name the
\*                  function name of its call (the closure called is the
\*                  one of that name), srcref the srcref current at the call
\*   kind "other" : a context that is not a call context
\*   kind "block" : an activation of doBegin: env is its functionEnv, phys
\*                  its isPhysical, src the srcref at index 0 of the block,
\*                  left the statements it has still to evaluate, srcref
\*                  the R_Srcref the evaluator restores when the block ends
CallCtx(env, name, srcref) ==
  [kind |-> "call", env |-> env, name |-> name, srcref |-> srcref,
   phys |-> FALSE, src |-> Nil, left |-> 0]
OtherCtx ==
  [kind |-> "other", env |-> Nil, name |-> "", srcref |-> Nil,
   phys |-> FALSE, src |-> Nil, left |-> 0]
BlockAct(env, phys, src, left, saved) ==
  [kind |-> "block", env |-> env, name |-> "", srcref |-> saved,
   phys |-> phys, src |-> src, left |-> left]

isCallContext(c) == c.kind = "call"

\* The RContext entries of the chain (doBegin activations are not contexts).
RContexts(ctxs) == SelectSeq(ctxs, LAMBDA c : c.kind # "block")

\* Environments of the live call contexts, innermost first.
CallEnvs(ctxs) ==
  LET cs == SelectSeq(ctxs, isCallContext)
  IN [i \in 1..Len(cs) |-> cs[i].env]

\* The markers written on every environment, live or not.
setStopHereFlagsEverywhere(flags, envs, c, isFirst) ==
  CASE c \in {"CONTINUE", "STEP_INTO"} -> [e \in Envs |-> FALSE]
    [] c = "STEP_OVER" -> [e \in Envs |-> TRUE]
    [] c = "STEP_OUT"  -> [e \in Envs |-> envs # <<>> /\ e # Head(envs)]
    [] OTHER -> flags

\* The loop of RDebugger::setCommand over the chain: flags is
\* stopHereFlagAttr of every environment, envs the call contexts still to
\* visit (innermost first), isFirst the loop's flag.
RECURSIVE setStopHereFlags(_, _, _, _)
setStopHereFlags(flags, envs, c, isFirst) ==
  IF envs = <<>> THEN flags
  ELSE LET env == Head(envs)
           f1  == CASE c \in {"CONTINUE", "STEP_INTO"} ->
                         [flags EXCEPT ![env] = FALSE]
                    [] c = "STEP_OVER" -> [flags EXCEPT ![env] = TRUE]
                    [] c = "STEP_OUT"  -> [flags EXCEPT ![env] = ~isFirst]
                    [] OTHER -> flags
       IN setStopHereFlags(f1, Tail(envs), c, FALSE)

\* resetRunToPositionTarget without the refreshBreakpoint call.
resetRunToPositionTargetNoRefresh(s) ==
  IF s.runToPositionTarget = Nil THEN s
  ELSE LET t  == s.runToPositionTarget
           s1 == SET_RDEBUG(s, t, FALSE)
       IN [s1 EXCEPT !.runToPositionTarget = Nil, !.obs.reset = t]

\* RDebugger::resetRunToPositionTarget()
resetRunToPositionTarget(s) ==
  IF s.runToPositionTarget = Nil THEN s
  ELSE LET t  == s.runToPositionTarget
           s1 == SET_RDEBUG(s, t, FALSE)
           s2 == refreshBreakpoint(s1, srcrefToPosition(t))
       IN [s2 EXCEPT !.runToPositionTarget = Nil, !.obs.reset = t]

\* setCommand with the loop's isFirst never true: STEP_OUT marks the
\* innermost call frame like the others.
setCommandNoFirst(s, c) ==
  LET s1 == [s EXCEPT !.currentCommand = c]
      s2 == resetRunToPositionTarget(s1)
      s3 == [s2 EXCEPT !.runToPositionTarget = Nil]
  IN [s3 EXCEPT !.stopHereFlag =
        setStopHereFlags(s3.stopHereFlag, CallEnvs(s3.contexts), c, FALSE)]

\* RDebugger::setCommand(c)
setCommand(s, c) ==
  LET s1 == [s EXCEPT !.currentCommand = c]
      s2 == resetRunToPositionTarget(s1)
      s3 == [s2 EXCEPT !.runToPositionTarget = Nil]
  IN [s3 EXCEPT !.stopHereFlag =
        setStopHereFlags(s3.stopHereFlag, CallEnvs(s3.contexts), c, TRUE)]

\* RDebugger::setRunToPositionCommand(fileId, line)
setRunToPositionCommand(s, key) ==
  LET s1 == [s EXCEPT !.currentCommand = "CONTINUE"]
      s2 == resetRunToPositionTarget(s1)
      r  == getStepSrcref(s2, key)
  IN IF r.val # Nil
     THEN SET_RDEBUG([r.st EXCEPT !.runToPositionTarget = r.val], r.val, TRUE)
     ELSE r.st

\* --------------------------------------------------------- stack builder
\* A call expression: nil for R_NilValue, else the function name
\* getCallFunctionName gives and the srcref attribute of the expression.
NilCall          == [nil |-> TRUE, name |-> "", srcref |-> Nil]
CallExpr(name)   == [nil |-> FALSE, name |-> name, srcref |-> Nil]
getCallFunctionName(call) == call.name

\* Closures are identified by name; NoFun is R_NilValue.
NoFun     == ""
Functions == {"f", "g"}

\* sourceFileManager.getFunctionSrcref(function, suggestedName): the srcref
\* of the function's declaration; "f" is declared in the physical file,
\* "g" is not.
getFunctionSrcref(function) ==
  CASE function = "f" -> 1
    [] function = "g" -> Internal
    [] OTHER -> Nil

\* RDebugger::ContextDump
ContextDump(call, function, srcref, environment) ==
  [call |-> call, function |-> function, srcref |-> srcref,
   environment |-> environment]

Reverse(seq) == [i \in 1..Len(seq) |-> seq[Len(seq) + 1 - i]]

\* getContextDump without the std::reverse: innermost first.
getContextDumpInnermostFirst(s, currentCall) ==
  LET initial == ContextDump(currentCall, NoFun, s.R_Srcref, Nil)
      cs      == SelectSeq(s.contexts, isCallContext)
      dumped  == [i \in 1..Len(cs) |->
                    ContextDump(CallExpr(cs[i].name), cs[i].name,
                                cs[i].srcref, cs[i].env)]
  IN <<initial>> \o dumped

\* RDebugger::getContextDump(currentCall)
getContextDump(s, currentCall) ==
  LET initial == ContextDump(currentCall, NoFun, s.R_Srcref, Nil)
      cs      == SelectSeq(s.contexts, isCallContext)
      dumped  == [i \in 1..Len(cs) |->
                    ContextDump(CallExpr(cs[i].name), cs[i].name,
                                cs[i].srcref, cs[i].env)]
  IN Reverse(<<initial>> \o dumped)

RDebuggerStackFrame(position, frame, functionName) ==
  [fileId |-> position[1], line |-> position[2], environment |-> frame,
   functionName |-> functionName]

\* An iteration of the loop of buildStack that gives a frame the name of
\* its own call expression.
buildStackStepOwnName(s, l, ctx) ==
  LET call    == ctx.call
      srcref  == IF ctx.srcref # Nil THEN ctx.srcref
                 ELSE IF call.srcref # Nil THEN call.srcref
                 ELSE l.functionSrcref
      bottom  == l.frame # Nil /\ s.stackBottomAttr[l.frame]
                 /\ ctx.environment # Nil
      wsb     == l.wasStackBottom \/ isPhysicalFile(srcref)
      emit    == ~call.nil /\ wsb
      realFrame == IF l.frame = Nil THEN Nil ELSE s.realEnvAttr[l.frame]
      frame   == IF realFrame # Nil THEN realFrame ELSE l.frame
      name    == IF l.stack = <<>> THEN "" ELSE getCallFunctionName(call)
      l1      == IF bottom
                 THEN [l EXCEPT !.stack = <<>>, !.wasStackBottom = TRUE]
                 ELSE IF emit
                 THEN [l EXCEPT !.wasStackBottom = wsb,
                         !.stack = Append(l.stack,
                            RDebuggerStackFrame(srcrefToPosition(srcref),
                                                frame, name))]
                 ELSE [l EXCEPT !.wasStackBottom = wsb]
  IN [l1 EXCEPT !.functionName = getCallFunctionName(call),
                !.functionSrcref = IF ctx.function # NoFun
                                   THEN getFunctionSrcref(ctx.function)
                                   ELSE @,
                !.frame = ctx.environment]

\* An iteration of the loop of buildStack that emits a frame only when its
\* own position is physical.
buildStackStepOnlyPhysical(s, l, ctx) ==
  LET call    == ctx.call
      srcref  == IF ctx.srcref # Nil THEN ctx.srcref
                 ELSE IF call.srcref # Nil THEN call.srcref
                 ELSE l.functionSrcref
      bottom  == l.frame # Nil /\ s.stackBottomAttr[l.frame]
                 /\ ctx.environment # Nil
      wsb     == l.wasStackBottom \/ isPhysicalFile(srcref)
      emit    == ~call.nil /\ isPhysicalFile(srcref)
      realFrame == IF l.frame = Nil THEN Nil ELSE s.realEnvAttr[l.frame]
      frame   == IF realFrame # Nil THEN realFrame ELSE l.frame
      name    == IF l.stack = <<>> THEN "" ELSE l.functionName
      l1      == IF bottom
                 THEN [l EXCEPT !.stack = <<>>, !.wasStackBottom = TRUE]
                 ELSE IF emit
                 THEN [l EXCEPT !.wasStackBottom = wsb,
                         !.stack = Append(l.stack,
                            RDebuggerStackFrame(srcrefToPosition(srcref),
                                                frame, name))]
                 ELSE [l EXCEPT !.wasStackBottom = wsb]
  IN [l1 EXCEPT !.functionName = getCallFunctionName(call),
                !.functionSrcref = IF ctx.function # NoFun
                                   THEN getFunctionSrcref(ctx.function)
                                   ELSE @,
                !.frame = ctx.environment]

\* One iteration of the loop of RDebugger::buildStack; l holds the loop's
\* variables stack, wasStackBottom, functionName, frame, functionSrcref.
buildStackStep(s, l, ctx) ==
  LET call    == ctx.call
      srcref  == IF ctx.srcref # Nil THEN ctx.srcref
                 ELSE IF call.srcref # Nil THEN call.srcref
                 ELSE l.functionSrcref
      bottom  == l.frame # Nil /\ s.stackBottomAttr[l.frame]
                 /\ ctx.environment # Nil
      wsb     == l.wasStackBottom \/ isPhysicalFile(srcref)
      emit    == ~call.nil /\ wsb
      realFrame == IF l.frame = Nil THEN Nil ELSE s.realEnvAttr[l.frame]
      frame   == IF realFrame # Nil THEN realFrame ELSE l.frame
      name    == IF l.stack = <<>> THEN "" ELSE l.functionName
      l1      == IF bottom
                 THEN [l EXCEPT !.stack = <<>>, !.wasStackBottom = TRUE]
                 ELSE IF emit
                 THEN [l EXCEPT !.wasStackBottom = wsb,
                         !.stack = Append(l.stack,
                            RDebuggerStackFrame(srcrefToPosition(srcref),
                                                frame, name))]
                 ELSE [l EXCEPT !.wasStackBottom = wsb]
  IN [l1 EXCEPT !.functionName = getCallFunctionName(call),
                !.functionSrcref = IF ctx.function # NoFun
                                   THEN getFunctionSrcref(ctx.function)
                                   ELSE @,
                !.frame = ctx.environment]

RECURSIVE buildStackLoop(_, _, _)
buildStackLoop(s, l, ctxs) ==
  IF ctxs = <<>> THEN l
  ELSE buildStackLoop(s, buildStackStep(s, l, Head(ctxs)), Tail(ctxs))

\* The interpreter runs code on behalf of the engine (RI->evalq of a
\* condition or log expression, the calls the stack builder makes).  A `{`
\* in that code is evaluated by the function in the slot: obs.nested counts
\* the times this is debugDoBegin.
evalq(s) ==
  IF s.funTab = debugDoBegin THEN [s EXCEPT !.obs.nested = @ + 1] ELSE s

\* WithDebuggerEnabled: the constructor remembers isEnabled() and switches
\* the debugger to the given value; the destructor switches it back.
WithDebuggerEnabledEnter(s, v) == IF v THEN enable(s) ELSE disable(s)
WithDebuggerEnabledLeave(s, previousValue) ==
  IF previousValue THEN enable(s) ELSE disable(s)

\* buildStack without the WithDebuggerEnabled line.
buildStackNoToggle(s, ctxs) ==
  IF ctxs = <<>> THEN [val |-> <<>>, st |-> s]
  ELSE LET l0 == [stack |-> <<>>, wasStackBottom |-> FALSE,
                  functionName |-> "", frame |-> Nil,
                  functionSrcref |-> Nil]
       IN [val |-> buildStackLoop(s, l0, ctxs).stack,
           st  |-> evalq([s EXCEPT !.obs.builds = @ + 1])]

\* RDebugger::buildStack(contexts): the stack and the engine state after.
buildStack(s, ctxs) ==
  IF ctxs = <<>> THEN [val |-> <<>>, st |-> s]
  ELSE LET s1 == WithDebuggerEnabledEnter(s, FALSE)
           l0 == [stack |-> <<>>, wasStackBottom |-> FALSE,
                  functionName |-> "", frame |-> Nil,
                  functionSrcref |-> Nil]
           s2 == evalq([s1 EXCEPT !.obs.builds = @ + 1])
       IN [val |-> buildStackLoop(s1, l0, ctxs).stack,
           st  |-> WithDebuggerEnabledLeave(s2, s.isEnabled)]

\* ---------------------------------------------------- breakpoint decision
\* The BreakpointInfo at address id.  An address the store does not own is
\* a dangling pointer: reading it gives whatever is there (garbage).
BreakpointInfoAt(s, id, garbage) ==
  LET ks == {k \in Keys : s.breakpoints[k] # NoEntry
                          /\ s.breakpoints[k].id = id}
  IN IF ks = {} THEN garbage ELSE s.breakpoints[CHOOSE k \in ks : TRUE]

IsDangling(s, id) ==
  id # NullPtr /\ id \notin OwnedIds(s.breakpoints)

\* checkCondition without the WithDebuggerEnabled line.
checkConditionNoToggle(s, condition) ==
  IF condition = "" THEN [val |-> TRUE, st |-> s]
  ELSE [val |-> (condition = "T"),
        st  |-> evalq([s EXCEPT !.obs.conds = @ + 1])]

\* checkCondition taking a condition that raises an error for one that
\* holds.
checkConditionErrorHolds(s, condition) ==
  IF condition = "" THEN [val |-> TRUE, st |-> s]
  ELSE LET s1 == WithDebuggerEnabledEnter(s, FALSE)
           s2 == [s1 EXCEPT !.obs.conds = @ + 1]
           s3 == WithDebuggerEnabledLeave(s2, s.isEnabled)
       IN [val |-> (condition \in {"T", "ERR"}), st |-> s3]

\* checkCondition(condition, env)
checkCondition(s, condition) ==
  IF condition = "" THEN [val |-> TRUE, st |-> s]
  ELSE LET s1 == WithDebuggerEnabledEnter(s, FALSE)
           s2 == evalq([s1 EXCEPT !.obs.conds = @ + 1])  \* parseCode, evalq
           s3 == WithDebuggerEnabledLeave(s2, s.isEnabled)
       IN [val |-> (condition = "T"),    \* "ERR": RError caught, false
           st  |-> s3]

\* evaluateAndLog(expression, env)
evaluateAndLog(s, expression) ==
  IF expression = "" THEN s
  ELSE LET s1 == WithDebuggerEnabledEnter(s, FALSE)
           s2 == evalq([s1 EXCEPT !.obs.logs = @ + 1,     \* parseCode, evalq
                                  !.obs.messages = @ + 1]) \* value or e.what()
       IN WithDebuggerEnabledLeave(s2, s.isEnabled)

\* An interrupt is delivered: the interpreter leaves every context above
\* the one that handles it (the top level when keep = 0) and takes the
\* srcref that was current there.
Unwind(s, keep) ==
  LET n == Len(s.contexts) IN
  IF keep >= n THEN s
  ELSE [s EXCEPT !.contexts = SubSeq(s.contexts, n - keep + 1, n),
                 !.R_Srcref = s.contexts[n - keep].srcref]

\* R_CheckUserInterrupt() with R_interrupts_pending set: if interrupts are
\* suspended the flag stays set and the call returns, otherwise the flag is
\* cleared and the evaluation is aborted up to the handling context.
R_CheckUserInterrupt(s, ch) ==
  IF ~s.interruptsPending THEN s
  ELSE IF ch.suspended THEN s
  ELSE Unwind([s EXCEPT !.interruptsPending = FALSE, !.obs.aborted = TRUE],
              ch.keep)

\* doBreakpoint consulting the breakpoint although breakpoints are muted.
doBreakpointIgnoringMute(s, currentCall, breakpoint, isStepStop, ch) ==
  LET info == BreakpointInfoAt(s, breakpoint, ch.garbage)
      c    == IF breakpoint # NullPtr THEN checkCondition(s, info.condition)
              ELSE [val |-> FALSE, st |-> s]
      s1   == IF breakpoint # NullPtr /\ c.val
              THEN evaluateAndLog(c.st, info.evaluateAndLog) ELSE c.st
      s2   == [s1 EXCEPT !.obs.bpCalls = @ + 1, !.obs.bp = breakpoint,
                         !.obs.stepStop = isStepStop]
  IN IF ~s.isEnabled \/ s.interruptsPending \/ s.currentCommand = "STOP"
        \/ ~(isStepStop \/ (breakpoint # NullPtr /\ c.val /\ info.suspend))
     THEN s2
     ELSE [setCommand(s2, "CONTINUE") EXCEPT !.pc = "prompt",
                                             !.obs.prompts = @ + 1]

\* doBreakpoint not looking at the enabled flag and the pending interrupt.
doBreakpointUnguarded(s, currentCall, breakpoint, isStepStop, ch) ==
  LET s1 == [s EXCEPT !.obs.bpCalls = @ + 1, !.obs.bp = breakpoint,
                      !.obs.stepStop = isStepStop]
  IN IF isStepStop
     THEN [setCommand(s1, "CONTINUE") EXCEPT !.pc = "prompt",
                                             !.obs.prompts = @ + 1]
     ELSE s1

\* doBreakpoint without its STOP branch: STOP is decided like any other
\* command.
doBreakpointNoStop(s0, currentCall, breakpoint, isStepStop, ch) ==
  LET s == [s0 EXCEPT !.obs.bpCalls = @ + 1, !.obs.bp = breakpoint,
                      !.obs.stepStop = isStepStop]
      info    == BreakpointInfoAt(s, breakpoint, ch.garbage)
      consult == ~s.breakpointsMuted /\ breakpoint # NullPtr
      c       == IF consult THEN checkCondition(s, info.condition)
                 ELSE [val |-> FALSE, st |-> s]
      s1      == IF consult /\ c.val
                 THEN evaluateAndLog(c.st, info.evaluateAndLog) ELSE c.st
      suspend == isStepStop \/ (consult /\ c.val /\ info.suspend)
  IN IF ~s.isEnabled \/ s.interruptsPending THEN s
     ELSE IF ~suspend THEN s1
     ELSE LET s2 == setCommand(s1, "CONTINUE")
              b  == buildStack(s2, getContextDump(s2, currentCall))
          IN [b.st EXCEPT !.stack = b.val, !.pc = "prompt",
                          !.obs.prompts = @ + 1]

\* doBreakpoint entering the prompt without building the stack: the stack
\* of the suspension before stays stored.
doBreakpointStaleStack(s0, currentCall, breakpoint, isStepStop, ch) ==
  LET s == [s0 EXCEPT !.obs.bpCalls = @ + 1, !.obs.bp = breakpoint,
                      !.obs.stepStop = isStepStop]
      atTarget == s.R_Srcref # Nil /\ s.R_Srcref = s.runToPositionTarget
      info     == BreakpointInfoAt(s, breakpoint, ch.garbage)
      consult  == ~s.breakpointsMuted /\ breakpoint # NullPtr
      c        == IF consult THEN checkCondition(s, info.condition)
                  ELSE [val |-> FALSE, st |-> s]
      s1       == IF consult /\ c.val
                  THEN evaluateAndLog(c.st, info.evaluateAndLog) ELSE c.st
      suspend  == isStepStop \/ atTarget \/ (consult /\ c.val /\ info.suspend)
  IN IF ~s.isEnabled \/ s.interruptsPending \/ s.currentCommand = "STOP"
     THEN s
     ELSE IF ~suspend THEN s1
     ELSE [setCommand(s1, "CONTINUE") EXCEPT !.pc = "prompt",
                                             !.obs.prompts = @ + 1]

\* doBreakpoint in which a log expression that fails takes the suspension
\* of its breakpoint with it.
doBreakpointLogDecides(s0, currentCall, breakpoint, isStepStop, ch) ==
  LET s == [s0 EXCEPT !.obs.bpCalls = @ + 1, !.obs.bp = breakpoint,
                      !.obs.stepStop = isStepStop]
      atTarget == s.R_Srcref # Nil /\ s.R_Srcref = s.runToPositionTarget
      info     == BreakpointInfoAt(s, breakpoint, ch.garbage)
      consult  == ~s.breakpointsMuted /\ breakpoint # NullPtr
      c        == IF consult THEN checkCondition(s, info.condition)
                  ELSE [val |-> FALSE, st |-> s]
      s1       == IF consult /\ c.val
                  THEN evaluateAndLog(c.st, info.evaluateAndLog) ELSE c.st
      suspend  == isStepStop \/ atTarget
                  \/ (/\ consult /\ c.val /\ info.suspend
                      /\ info.evaluateAndLog # "ERR")
  IN IF ~s.isEnabled \/ s.interruptsPending \/ s.currentCommand = "STOP"
     THEN s
     ELSE IF ~suspend THEN s1
     ELSE LET s2 == setCommand(s1, "CONTINUE")
              b  == buildStack(s2, getContextDump(s2, currentCall))
          IN [b.st EXCEPT !.stack = b.val, !.pc = "prompt",
                          !.obs.prompts = @ + 1]

\* doBreakpoint clearing the run-to-position target in every decision
\* cycle, suspending or not.
doBreakpointClearsAlways(s0, currentCall, breakpoint, isStepStop, ch) ==
  LET s == [s0 EXCEPT !.obs.bpCalls = @ + 1, !.obs.bp = breakpoint,
                      !.obs.stepStop = isStepStop,
                      !.obs.dangling = IsDangling(s0, breakpoint)]
  IN
  IF ~s.isEnabled \/ s.interruptsPending
  THEN [s EXCEPT !.obs.raced = @ \/ (/\ s.isEnabled /\ s.interruptsPending
                                     /\ s.currentCommand = "STOP")]
  ELSE IF s.currentCommand = "STOP"
  THEN LET s1 == setCommand(s, "CONTINUE")
           s2 == [s1 EXCEPT !.interruptsPending = TRUE,
                            !.obs.interrupts = @ + 1,
                            !.obs.raced = FALSE]
       IN R_CheckUserInterrupt(s2, ch)
  ELSE
    LET atTarget == s.R_Srcref # Nil /\ s.R_Srcref = s.runToPositionTarget
        info     == BreakpointInfoAt(s, breakpoint, ch.garbage)
        consult  == ~s.breakpointsMuted /\ breakpoint # NullPtr
        c        == IF consult THEN checkCondition(s, info.condition)
                    ELSE [val |-> FALSE, st |-> s]
        s1       == IF consult /\ c.val
                    THEN evaluateAndLog(c.st, info.evaluateAndLog)
                    ELSE c.st
        suspend  == isStepStop \/ atTarget
                    \/ (consult /\ c.val /\ info.suspend)
    IN IF ~suspend THEN resetRunToPositionTarget(s1)
       ELSE LET s2 == setCommand(s1, "CONTINUE")
                b  == buildStack(s2, getContextDump(s2, currentCall))
            IN [b.st EXCEPT !.stack = b.val,
                            !.pc = "prompt",        \* debugPromptHandler()
                            !.obs.prompts = @ + 1]

\* RDebugger::doBreakpoint(currentCall, breakpoint, isStepStop, env)
\* ch decides what the code does not: the outcome of the interrupt check
\* and the contents of a dangling breakpoint pointer.
doBreakpoint(s0, currentCall, breakpoint, isStepStop, ch) ==
  LET s == [s0 EXCEPT !.obs.bpCalls = @ + 1, !.obs.bp = breakpoint,
                      !.obs.stepStop = isStepStop,
                      !.obs.dangling = IsDangling(s0, breakpoint)]
  IN
  IF ~s.isEnabled \/ s.interruptsPending
  THEN [s EXCEPT !.obs.raced = @ \/ (/\ s.isEnabled /\ s.interruptsPending
                                     /\ s.currentCommand = "STOP")]
  ELSE IF s.currentCommand = "STOP"
  THEN LET s1 == setCommand(s, "CONTINUE")
           s2 == [s1 EXCEPT !.interruptsPending = TRUE,
                            !.obs.interrupts = @ + 1,
                            !.obs.raced = FALSE]
       IN R_CheckUserInterrupt(s2, ch)
  ELSE
    LET atTarget == s.R_Srcref # Nil /\ s.R_Srcref = s.runToPositionTarget
        info     == BreakpointInfoAt(s, breakpoint, ch.garbage)
        consult  == ~s.breakpointsMuted /\ breakpoint # NullPtr
        c        == IF consult THEN checkCondition(s, info.condition)
                    ELSE [val |-> FALSE, st |-> s]
        s1       == IF consult /\ c.val
                    THEN evaluateAndLog(c.st, info.evaluateAndLog)
                    ELSE c.st
        suspend  == isStepStop \/ atTarget
                    \/ (consult /\ c.val /\ info.suspend)
    IN IF ~suspend THEN s1
       ELSE LET s2 == setCommand(s1, "CONTINUE")
                b  == buildStack(s2, getContextDump(s2, currentCall))
            IN [b.st EXCEPT !.stack = b.val,
                            !.pc = "prompt",        \* debugPromptHandler()
                            !.obs.prompts = @ + 1]

\* RDebugger::doHandleException(e)
doHandleException(s) ==
  [s EXCEPT !.lastErrorStackDump = getContextDump(s, NilCall)]

\* RDebugger::getStack()
getStack(s) == s.stack

\* getLastErrorStack handing the snapshot out once: it is gone afterwards.
getLastErrorStackConsuming(s) ==
  LET b == buildStack(s, s.lastErrorStackDump)
  IN [val |-> IF b.val # <<>> THEN SubSeq(b.val, 1, Len(b.val) - 1)
              ELSE b.val,
      st  |-> [b.st EXCEPT !.lastErrorStackDump = <<>>]]

\* getLastErrorStack without the pop_back.
getLastErrorStackWhole(s) ==
  LET b == buildStack(s, s.lastErrorStackDump)
  IN [val |-> b.val, st |-> b.st]

\* RDebugger::getLastErrorStack(): the stack it returns and the state after
getLastErrorStack(s) ==
  LET b == buildStack(s, s.lastErrorStackDump)
  IN [val |-> IF b.val # <<>> THEN SubSeq(b.val, 1, Len(b.val) - 1)
              ELSE b.val,
      st  |-> b.st]

\* RDebugger::resetLastErrorStack()
resetLastErrorStack(s) == [s EXCEPT !.lastErrorStackDump = <<>>]

\* ------------------------------------------------------------- doBegin
\* RDEBUG(srcref): only srcref objects the resolver hands out are ever
\* armed; R_NilValue never is.
RDEBUG(s, srcref) == srcref \in Targets /\ s.rdebug[srcref]

\* getCurrentCallContext(), then getEnvironment(ctx): functionEnv of doBegin
getCurrentCallEnv(s) ==
  LET envs == CallEnvs(s.contexts)
  IN IF envs = <<>> THEN Nil ELSE Head(envs)

\* RDebugger::doBegin up to its loop: srcref0 is getSrcref(srcrefs, 0), n
\* the number of statements.  The activation is entered in contexts.
doBeginEntry(s, srcref0, n, ch) ==
  LET act == BlockAct(getCurrentCallEnv(s), isPhysicalFile(srcref0),
                      srcref0, n, s.R_Srcref)
      s1  == [s EXCEPT !.contexts = <<act>> \o @, !.R_Srcref = srcref0]
  IN IF RDEBUG(s1, srcref0)
     THEN doBreakpoint(s1, CallExpr("{"),
                       getBreakpointInfoAttrib(s1, srcref0), FALSE, ch)
     ELSE s1

\* stopHere with PAUSE and FORCE_STEP_INTO decided like STEP_INTO: only in
\* blocks of a physical file.
stopHerePhysicalOnly(s, functionEnv, isPhysical) ==
  CASE s.currentCommand \in {"STEP_INTO", "FORCE_STEP_INTO", "PAUSE"} ->
         isPhysical
    [] s.currentCommand = "STOP" -> TRUE
    [] s.currentCommand \in {"STEP_OVER", "STEP_OUT"} ->
         functionEnv # Nil /\ s.stopHereFlag[functionEnv]
    [] OTHER -> FALSE

\* stopHere with STEP_INTO decided like FORCE_STEP_INTO: in every block.
stopHereIntoEverywhere(s, functionEnv, isPhysical) ==
  CASE s.currentCommand \in {"STEP_INTO", "FORCE_STEP_INTO", "PAUSE",
                             "STOP"} -> TRUE
    [] s.currentCommand \in {"STEP_OVER", "STEP_OUT"} ->
         functionEnv # Nil /\ s.stopHereFlag[functionEnv]
    [] OTHER -> FALSE

\* stopHere with STEP_OVER decided without the frame's marker.
stopHereOverEverywhere(s, functionEnv, isPhysical) ==
  CASE s.currentCommand = "STEP_INTO" -> isPhysical
    [] s.currentCommand \in {"FORCE_STEP_INTO", "PAUSE", "STOP",
                             "STEP_OVER"} -> TRUE
    [] s.currentCommand = "STEP_OUT" ->
         functionEnv # Nil /\ s.stopHereFlag[functionEnv]
    [] OTHER -> FALSE

\* stopHere with STEP_OUT decided without the frame's marker.
stopHereOutEverywhere(s, functionEnv, isPhysical) ==
  CASE s.currentCommand = "STEP_INTO" -> isPhysical
    [] s.currentCommand \in {"FORCE_STEP_INTO", "PAUSE", "STOP"} -> TRUE
    [] s.currentCommand = "STEP_OVER" ->
         functionEnv # Nil /\ s.stopHereFlag[functionEnv]
    [] s.currentCommand = "STEP_OUT" -> functionEnv # Nil
    [] OTHER -> FALSE

\* stopHere of one iteration of the loop of doBegin
stopHere(s, functionEnv, isPhysical) ==
  CASE s.currentCommand = "STEP_INTO" -> isPhysical
    [] s.currentCommand \in {"FORCE_STEP_INTO", "PAUSE", "STOP"} -> TRUE
    [] s.currentCommand \in {"STEP_OVER", "STEP_OUT"} ->
         functionEnv # Nil /\ s.stopHereFlag[functionEnv]
    [] OTHER -> FALSE

\* One iteration of the loop of doBegin, up to Rf_eval of the statement:
\* srcref is getSrcref(srcrefs, i), call the statement CAR(args).  The
\* innermost entry of contexts is the activation.
doBeginStatement(s, srcref, call, ch) ==
  LET act  == Head(s.contexts)
      s1   == [s EXCEPT !.R_Srcref = srcref,
                        !.contexts[1].left = @ - 1,
                        !.obs.target = srcref,
                        !.obs.cmd = s.currentCommand]
      stop == stopHere(s1, act.env, act.phys)
      flag == RDEBUG(s1, srcref)
  IN IF stop \/ flag
     THEN doBreakpoint(s1, call,
                       IF flag THEN getBreakpointInfoAttrib(s1, srcref)
                       ELSE NullPtr,
                       stop, ch)
     ELSE s1

\* doBegin from its call to the loop, for the activation at the bottom of
\* the chain: SEXP s = R_NilValue, the entry decision, and
\* if (args != R_NilValue).  An interrupt that is delivered ends the
\* activation.
doBeginEnter(s, srcref0, n, ch) ==
  LET s1 == doBeginEntry(s, srcref0, n, ch)
  IN [s1 EXCEPT !.obs.run =
        [NoRun EXCEPT !.n = n, !.i = 1, !.prompts = s1.obs.prompts,
                      !.at = IF s1.obs.aborted THEN "none"
                             ELSE IF n = 0 THEN "return" ELSE "decide"]]

\* The body of the loop of doBegin up to the call of Rf_eval.
doBeginDecide(s, srcref, call, ch) ==
  LET s1 == doBeginStatement(s, srcref, call, ch)
  IN [s1 EXCEPT !.obs.run.prompts = @ + s1.obs.prompts,
                !.obs.run.at = IF s1.obs.aborted THEN "none" ELSE "eval"]

\* The rest of the loop body keeping the value of the first statement.
doBeginEvalKeepFirst(s, v) ==
  LET r == s.obs.run
  IN [s EXCEPT !.obs.run =
        [r EXCEPT !.s = IF r.i = 1 THEN v ELSE @,
                  !.evals = Append(@, <<r.i, v>>),
                  !.i = r.i + 1,
                  !.at = IF r.i = r.n THEN "return" ELSE "decide"]]

\* The rest of the loop body: s = Rf_eval(CAR(args), rho); args = CDR(args),
\* v being the value of the statement.
doBeginEval(s, v) ==
  LET r == s.obs.run
  IN [s EXCEPT !.obs.run =
        [r EXCEPT !.s = v,
                  !.evals = Append(@, <<r.i, v>>),
                  !.i = r.i + 1,
                  !.at = IF r.i = r.n THEN "return" ELSE "decide"]]

\* return s: the activation ends and the `{` call has the value s.
doBeginReturn(s) ==
  [s EXCEPT !.contexts = Tail(@),
            !.R_Srcref = Head(s.contexts).srcref,
            !.obs.value = s.obs.run.s,
            !.obs.run.at = "none"]

\* ---------------------------------------------------------------- actions
\* What the host writes into a BreakpointInfo through the reference
\* addBreakpoint returned: condition, evaluateAndLog, suspend.
Configs == CondTexts \X LogTexts \X BOOLEAN

\* What a dangling BreakpointInfo pointer can read.
Garbage == { [InternalBreakpointInfo(1) EXCEPT !.suspend = b] :
             b \in BOOLEAN }

\* The outcomes the engine does not decide: whether interrupts are
\* suspended, how many outer contexts survive a delivered interrupt, and
\* what a dangling pointer reads.
NoChoice == [suspended |-> TRUE, keep |-> 0,
             garbage |-> InternalBreakpointInfo(1)]
Choices(s, bp) ==
  IF s.isEnabled /\ ~s.interruptsPending /\ s.currentCommand = "STOP"
  THEN { [NoChoice EXCEPT !.suspended = b, !.keep = k] :
           b \in BOOLEAN, k \in 0..(Len(s.contexts) - 1) }
  ELSE IF IsDangling(s, bp)
  THEN { [NoChoice EXCEPT !.garbage = g] : g \in Garbage }
  ELSE { NoChoice }

\* The execution thread runs interpreted code.
Running   == pc = "run"
\* The host may change breakpoints and commands: the execution thread is
\* blocked in the prompt callback or runs no user code.
Quiescent == pc = "prompt" \/ contexts = <<>>

\* Steps of the interpreter and of the source manager leave no record of
\* an engine call.
Env == Begin(State, "env", NoKey)

Enable ==
  /\ Quiescent
  /\ Commit(enable(Begin(State, "enable", NoKey)))

Disable ==
  /\ Quiescent
  /\ Commit(disable(Begin(State, "disable", NoKey)))

MuteBreakpoints ==
  /\ Quiescent
  /\ \E b \in BOOLEAN : Commit(muteBreakpoints(Begin(State, "mute", NoKey), b))

\* The address the allocator gives the next map node: the lowest free one
\* (a freed address is used again).
NewId(bps) ==
  CHOOSE i \in Ids \ OwnedIds(bps) : \A j \in Ids \ OwnedIds(bps) : i <= j

\* The call of an engine function on a key: pre records whether the store
\* had an entry for the key when the call began, old the srcref it recorded.
OnKey(op, key) ==
  [Begin(State, op, key) EXCEPT
     !.obs.pre = (breakpoints[key] # NoEntry),
     !.obs.old = IF breakpoints[key] # NoEntry THEN breakpoints[key].srcref
                 ELSE Nil]

AddBreakpoint(keys) ==
  /\ Quiescent
  /\ \E key \in keys :
       Commit(addBreakpoint(OnKey("add", key), key, NewId(breakpoints)))

\* The host sets the fields of the BreakpointInfo it holds a reference to.
SetInfo(keys, configs) ==
  /\ Quiescent
  /\ \E key \in keys : \E c \in configs :
       /\ breakpoints[key] # NoEntry
       /\ Commit([Begin(State, "setInfo", key) EXCEPT
                    !.breakpoints[key].condition = c[1],
                    !.breakpoints[key].evaluateAndLog = c[2],
                    !.breakpoints[key].suspend = c[3]])

RemoveBreakpoint(keys) ==
  /\ Quiescent
  /\ \E key \in keys :
       Commit(removeBreakpoint(OnKey("remove", key), key))

RefreshBreakpoint(keys) ==
  /\ Quiescent
  /\ \E key \in keys :
       Commit(refreshBreakpoint(OnKey("refresh", key), key))

\* PAUSE and STOP reach the engine while the program runs, the other
\* commands are given at the prompt.
SetCommand(commands) ==
  \E c \in commands :
    /\ Quiescent \/ c \in {"PAUSE", "STOP"}
    /\ Commit(setCommand([Begin(State, "setCommand", NoKey)
                            EXCEPT !.obs.cmd = c, !.obs.raced = FALSE], c))

SetRunToPositionCommand(keys) ==
  /\ Quiescent
  /\ \E key \in keys :
       Commit(setRunToPositionCommand(
                [OnKey("runTo", key) EXCEPT !.obs.raced = FALSE], key))

\* The return of debugPromptHandler() followed by a second normalisation of
\* the command.
PromptReturnNormalising ==
  /\ pc = "prompt"
  /\ Commit(setCommand([Begin(State, "resume", NoKey) EXCEPT !.pc = "run"],
                       "CONTINUE"))

\* debugPromptHandler() returns: the execution thread goes on.
PromptReturn ==
  /\ pc = "prompt"
  /\ Commit([Begin(State, "resume", NoKey) EXCEPT !.pc = "run"])

\* A source file is loaded, reloaded or dropped: the resolver's answer for
\* one (file, line) changes.
ResolverChange ==
  \E key \in Keys : \E t \in Targets \cup {Nil} :
    /\ resolver[key] # t
    /\ Commit([Env EXCEPT !.resolver[key] = t])

\* A source file is parsed again or dropped: a position resolves to another
\* srcref object that carries this position, or to none.
Reload ==
  \E key \in Keys : \E t \in Targets \cup {Nil} :
    /\ resolver[key] # t
    /\ t # Nil => srcrefToPosition(t) = key
    /\ Commit([Env EXCEPT !.resolver[key] = t])

\* The interpreter enters a function call; the context keeps the srcref
\* that is current at the call.
PushCallTo(functions, envs, depth) ==
  /\ Running /\ Len(contexts) < depth
  /\ \E env \in envs : \E name \in functions :
       Commit([Env EXCEPT !.contexts = <<CallCtx(env, name, R_Srcref)>> \o @])

PushCall(functions) == PushCallTo(functions, Envs, MaxDepth)

\* The interpreter enters a context that is not a call.
PushOther ==
  /\ Running /\ Len(contexts) < MaxDepth
  /\ Commit([Env EXCEPT
               !.contexts = <<[OtherCtx EXCEPT !.srcref = R_Srcref]>> \o @])

\* The innermost context or block ends; the evaluator restores the srcref
\* that was current when it began.
Pop ==
  /\ Running /\ contexts # <<>>
  /\ Commit([Env EXCEPT !.contexts = Tail(@),
                        !.R_Srcref = Head(contexts).srcref])

\* The interpreter evaluates a `{` call through the patched slot.
BeginBlock(srcrefs, counts, depth) ==
  /\ Running /\ Len(contexts) < depth /\ funTab = debugDoBegin
  /\ \E srcref0 \in srcrefs : \E n \in counts :
     \E ch \in Choices([State EXCEPT !.contexts = <<OtherCtx>> \o @],
                       getBreakpointInfoAttrib(State, srcref0)) :
       Commit(doBeginEntry([Begin(State, "begin", NoKey)
                              EXCEPT !.obs.target = srcref0],
                           srcref0, n, ch))

\* The srcrefs of the statements of a block lie in the file of the block.
StatementSrcrefs(src) ==
  IF src \in Targets THEN Targets ELSE {src}

\* doBegin reaches its next statement.
Statement(calls) ==
  /\ Running /\ contexts # <<>>
  /\ Head(contexts).kind = "block" /\ Head(contexts).left > 0
  /\ \E srcref \in StatementSrcrefs(Head(contexts).src) :
     \E call \in calls :
     \E ch \in Choices(State, getBreakpointInfoAttrib(State, srcref)) :
       Commit(doBeginStatement(Begin(State, "statement", NoKey),
                               srcref, call, ch))

\* The program marks an environment as the bottom of a fresh top-level
\* evaluation (the attribute buildStack reads).
MarkStackBottom(envs) ==
  /\ Running
  /\ \E env \in envs :
       /\ ~stackBottomAttr[env]
       /\ Commit([Env EXCEPT !.stackBottomAttr[env] = TRUE])

\* The user interrupts the interpreter.
RaiseInterrupt ==
  /\ ~interruptsPending
  /\ Commit([Env EXCEPT !.interruptsPending = TRUE])

\* The interpreter reaches a safe point with an interrupt pending.
CheckInterrupt ==
  /\ Running /\ interruptsPending
  /\ \E keep \in 0..Len(contexts) :
       Commit(R_CheckUserInterrupt(Env,
                [NoChoice EXCEPT !.suspended = FALSE, !.keep = keep]))

\* The program changes the JIT level (compiler::enableJIT).
SetJit ==
  /\ Running
  /\ \E l \in JitLevels :
       /\ l # jit
       /\ Commit([Env EXCEPT !.jit = l])

\* An unhandled error of the program reaches the engine.
HandleException ==
  /\ Running
  /\ Commit(doHandleException(Begin(State, "exception", NoKey)))

\* The program fails and nothing in it handles the error: the interpreter
\* calls the error handler, a function called with the position of the
\* failure as its srcref; the handler passes the condition to the engine,
\* and the evaluation is abandoned up to the top level.
Fail(envs) ==
  /\ Running
  /\ \E env \in envs :
       LET s0 == Begin(State, "failure", NoKey)
           s1 == [s0 EXCEPT !.contexts =
                              <<CallCtx(env, "handler", s0.R_Srcref)>> \o @]
       IN Commit(Unwind(doHandleException(s1), 0))

\* The host asks for the stack of the last error.
GetLastErrorStack ==
  /\ Quiescent
  /\ LET r == getLastErrorStack(Begin(State, "getLastErrorStack", NoKey))
     IN Commit([r.st EXCEPT !.obs.frames = r.val])

\* The host asks for the stack of the suspension.
GetStack ==
  /\ Quiescent
  /\ LET s == Begin(State, "getStack", NoKey)
     IN Commit([s EXCEPT !.obs.frames = getStack(s)])

ResetLastErrorStack ==
  /\ Quiescent
  /\ Commit(resetLastErrorStack(Begin(State, "resetLastErrorStack", NoKey)))

\* ---------------------------------------------------------- specifications
\* The state after construction and RDebugger::init(), for a given resolver
\* mapping and JIT level of the interpreter.
InitState(resolvers, levels) ==
  /\ breakpoints = [k \in Keys |-> NoEntry]
  /\ rdebug = [t \in Targets |-> FALSE]
  /\ bpAttr = [t \in Targets |-> NullPtr]
  /\ resolver \in resolvers
  /\ currentCommand = "CONTINUE"
  /\ runToPositionTarget = Nil
  /\ breakpointsMuted = FALSE
  /\ isEnabled = FALSE
  /\ funTab = do_begin
  /\ prevDoBegin = NoFunction
  /\ jit \in levels
  /\ prevJIT = 0
  /\ interruptsPending = FALSE
  /\ stopHereFlag = [e \in Envs |-> FALSE]
  /\ contexts = <<>>
  /\ R_Srcref = Nil
  /\ stackBottomAttr = [e \in Envs |-> FALSE]
  /\ realEnvAttr = [e \in Envs |-> Nil]
  /\ stack = <<>>
  /\ lastErrorStackDump = <<>>
  /\ pc = "run"
  /\ obs = NoObs

\* No source is loaded yet.
NothingLoaded == [k \in Keys |-> Nil]
\* The physical file is loaded: a position resolves to the first srcref
\* that carries it.
Loaded ==
  [k \in Keys |->
     CHOOSE t \in Targets : /\ srcrefToPosition(t) = k
                            /\ \A u \in Targets :
                                 srcrefToPosition(u) = k => t <= u]

TypeOK ==
  /\ currentCommand \in Commands
  /\ runToPositionTarget \in Targets \cup {Nil}
  /\ pc \in {"run", "prompt"}
  /\ Len(contexts) <= MaxDepth

\* The breakpoint store and the commands, while sources are loaded and
\* dropped.
Init == InitState({NothingLoaded}, {0})

Next ==
  \/ AddBreakpoint(Keys) \/ RemoveBreakpoint(Keys) \/ RefreshBreakpoint(Keys)
  \/ SetInfo(Keys, {<<"", "", TRUE>>, <<"F", "OK", FALSE>>})
  \/ SetCommand({"CONTINUE"})
  \/ SetRunToPositionCommand(Keys)
  \/ ResolverChange

Spec == Init /\ [][Next]_vars

\* ------------------------------------------------------------------ claims
\* The contents of a BreakpointInfo.
Contents(entry) ==
  <<entry.condition, entry.evaluateAndLog, entry.suspend>>

\* C1: addBreakpoint on a (file, line) the store already holds returns the
\* BreakpointInfo the store holds for it, does not call the resolver and
\* changes neither the store nor any srcref's RDEBUG bit or attached info,
\* whether or not the entry has a target and whatever the resolver now says.
C1_AddIdempotent ==
  [][(obs'.op = "add" /\ obs'.pre) =>
       /\ obs'.ret = breakpoints[obs'.key].id
       /\ obs'.resolves = 0
       /\ breakpoints' = breakpoints
       /\ rdebug' = rdebug
       /\ bpAttr' = bpAttr]_vars

\* A second add has run on an entry recorded without target, after the
\* resolver learned to resolve the position: still nothing is armed.
C1_Witness ==
  /\ obs.op = "add" /\ obs.pre
  /\ breakpoints[obs.key].srcref = Nil
  /\ resolver[obs.key] # Nil
  /\ ~rdebug[resolver[obs.key]]

\* The store, the commands and a program whose blocks are entered at
\* positions of the physical file, so that breakpoints and run-to-position
\* targets are hit and the engine suspends.
NextSuspend ==
  \/ Enable
  \/ AddBreakpoint(Keys) \/ RemoveBreakpoint(Keys) \/ RefreshBreakpoint(Keys)
  \/ SetCommand({"CONTINUE"})
  \/ SetRunToPositionCommand(Keys)
  \/ ResolverChange
  \/ BeginBlock(Targets, {0}, 1) \/ Pop \/ PromptReturn

SpecSuspend == Init /\ [][NextSuspend]_vars

\* C3: the store holds at most one BreakpointInfo per (file, line), no two
\* entries share a BreakpointInfo, and a srcref with an attached pointer
\* points to the BreakpointInfo of a store entry that records this srcref.
C3_StoreInvariant ==
  /\ \A k1, k2 \in Keys :
       (breakpoints[k1] # NoEntry /\ breakpoints[k2] # NoEntry /\ k1 # k2)
         => breakpoints[k1].id # breakpoints[k2].id
  /\ \A t \in Targets :
       bpAttr[t] # NullPtr =>
         \E k \in Keys : /\ breakpoints[k] # NoEntry
                         /\ breakpoints[k].id = bpAttr[t]
                         /\ breakpoints[k].srcref = t

\* The engine has suspended at a srcref that two entries record.
C3_Witness ==
  /\ obs.op = "begin" /\ obs.prompts = 1
  /\ \E k1, k2 \in Keys :
       /\ k1 # k2
       /\ breakpoints[k1] # NoEntry /\ breakpoints[k2] # NoEntry
       /\ breakpoints[k1].srcref = obs.target
       /\ breakpoints[k2].srcref = obs.target
       /\ bpAttr[obs.target] # NullPtr

\* C4: refreshBreakpoint on an existing entry resolves the position once,
\* records the result, leaves the old srcref unarmed and unattached unless
\* it is the new one, arms the new srcref and attaches the same
\* BreakpointInfo, and keeps the info's address and contents; on a
\* (file, line) not in the store it creates no entry and changes nothing.
C4_Refresh ==
  [][obs'.op = "refresh" =>
       LET k   == obs'.key
           old == IF obs'.pre THEN breakpoints[k].srcref ELSE Nil
           new == resolver[k]
       IN IF ~obs'.pre
          THEN /\ breakpoints' = breakpoints /\ rdebug' = rdebug
               /\ bpAttr' = bpAttr /\ obs'.resolves = 0
          ELSE /\ obs'.resolves = 1
               /\ breakpoints'[k].srcref = new
               /\ breakpoints'[k].id = breakpoints[k].id
               /\ Contents(breakpoints'[k]) = Contents(breakpoints[k])
               /\ \A j \in Keys \ {k} : breakpoints'[j] = breakpoints[j]
               /\ (old # Nil /\ old # new) =>
                    (~rdebug'[old] /\ bpAttr'[old] = NullPtr)
               /\ new # Nil =>
                    (rdebug'[new] /\ bpAttr'[new] = breakpoints[k].id)
               /\ \A t \in Targets \ {old, new} :
                    rdebug'[t] = rdebug[t] /\ bpAttr'[t] = bpAttr[t]]_vars

\* An entry recorded without target, with contents the host has set, was
\* refreshed after its source was loaded and is now armed.
C4_Witness ==
  /\ obs.op = "refresh" /\ obs.pre /\ obs.old = Nil
  /\ breakpoints[obs.key].srcref # Nil
  /\ rdebug[breakpoints[obs.key].srcref]
  /\ bpAttr[breakpoints[obs.key].srcref] = breakpoints[obs.key].id
  /\ Contents(breakpoints[obs.key]) = <<"F", "OK", FALSE>>

\* The breakpoint decision: one breakpoint position, every way the host
\* can configure it, muting, enabling, every command, interrupts, errors.
InitDecide == InitState({Loaded}, {0})

NextDecide ==
  \/ Enable \/ Disable \/ MuteBreakpoints
  \/ AddBreakpoint({<<"a.r", 1>>}) \/ RemoveBreakpoint({<<"a.r", 1>>})
  \/ SetInfo({<<"a.r", 1>>},
             {<<"", "", TRUE>>, <<"F", "OK", TRUE>>, <<"", "OK", FALSE>>})
  \/ SetCommand({"CONTINUE", "STEP_INTO", "PAUSE", "STOP"})
  \/ SetRunToPositionCommand(Keys)
  \/ PromptReturn
  \/ BeginBlock(Targets, 0..MaxStmts, 1) \/ Statement({CallExpr("f")}) \/ Pop
  \/ RaiseInterrupt \/ CheckInterrupt \/ HandleException

SpecDecide == InitDecide /\ [][NextDecide]_vars

\* A pass of doBegin over a position: the entry of a block or a statement.
IsPass(o) == o.op \in {"begin", "statement"}

\* The BreakpointInfo attached to a srcref suspends when consulted: its
\* condition is empty or evaluates to TRUE and its suspend field is set.
CondHolds(condition) == condition \in {"", "T"}
Suspending(id) ==
  /\ id # NullPtr
  /\ \E k \in Keys : /\ breakpoints[k] # NoEntry
                     /\ breakpoints[k].id = id
                     /\ CondHolds(breakpoints[k].condition)
                     /\ breakpoints[k].suspend

\* C2: removeBreakpoint on an existing entry erases it and leaves the
\* srcref it recorded unarmed and unattached, touching no other entry or
\* srcref; on a (file, line) not in the store it changes nothing; and under
\* CONTINUE a pass over an unarmed position calls no breakpoint logic and
\* does not suspend.
C2_Remove ==
  [][/\ obs'.op = "remove" =>
          LET k   == obs'.key
              old == IF obs'.pre THEN breakpoints[k].srcref ELSE Nil
          IN IF ~obs'.pre
             THEN /\ breakpoints' = breakpoints /\ rdebug' = rdebug
                  /\ bpAttr' = bpAttr
             ELSE /\ breakpoints'[k] = NoEntry
                  /\ \A j \in Keys \ {k} : breakpoints'[j] = breakpoints[j]
                  /\ old # Nil => (~rdebug'[old] /\ bpAttr'[old] = NullPtr)
                  /\ \A t \in Targets \ {old} :
                       rdebug'[t] = rdebug[t] /\ bpAttr'[t] = bpAttr[t]
     /\ (/\ IsPass(obs') /\ currentCommand = "CONTINUE"
         /\ obs'.target \in Targets /\ ~rdebug[obs'.target])
          => (obs'.bpCalls = 0 /\ pc' = "run")]_vars

\* At the prompt inside a block that has statements left, the breakpoint
\* of an armed position was removed.
C2_Witness ==
  /\ obs.op = "remove" /\ obs.pre /\ obs.old # Nil
  /\ ~rdebug[obs.old] /\ bpAttr[obs.old] = NullPtr
  /\ pc = "prompt" /\ contexts # <<>> /\ Head(contexts).left > 0

\* C5: while breakpoints are muted a breakpoint decision evaluates no
\* condition and no log expression and suspends exactly when the engine is
\* live and the call is a step stop or the position is the run-to-position
\* target; and a live step stop or run-to-position hit suspends whether or
\* not breakpoints are muted.
Live == isEnabled /\ ~interruptsPending /\ currentCommand # "STOP"

C5_Muted ==
  [][obs'.bpCalls = 1 =>
       LET hit == obs'.stepStop
                  \/ (obs'.target # Nil /\ obs'.target = runToPositionTarget)
       IN /\ breakpointsMuted =>
               /\ obs'.conds = 0 /\ obs'.logs = 0
               /\ (pc' = "prompt") <=> (Live /\ hit)
          /\ (Live /\ hit) => pc' = "prompt"]_vars

\* A decision was made at a srcref whose breakpoint would suspend, with
\* breakpoints muted and the engine live: it did not suspend.
C5_Witness ==
  /\ IsPass(obs) /\ obs.bpCalls = 1 /\ obs.interrupts = 0
  /\ breakpointsMuted /\ isEnabled /\ ~interruptsPending
  /\ Suspending(obs.bp)
  /\ pc = "run"

\* C7: the prompt is entered only by a breakpoint decision made with the
\* engine enabled, no interrupt pending and a command other than STOP, and
\* only if it is a step stop, a run-to-position hit or an unmuted breakpoint
\* whose condition holds and whose suspend field is set; a decision made
\* while disabled or with an interrupt pending evaluates nothing and
\* changes nothing; recording an unhandled error does not enter the prompt.
C7_PromptOnlyOnDecision ==
  [][/\ (pc' = "prompt" /\ pc = "run") =>
          /\ obs'.bpCalls = 1 /\ Live
          /\ \/ obs'.stepStop
             \/ (obs'.target # Nil /\ obs'.target = runToPositionTarget)
             \/ (~breakpointsMuted /\ Suspending(obs'.bp))
     /\ (obs'.bpCalls = 1 /\ (~isEnabled \/ interruptsPending)) =>
          /\ obs'.conds = 0 /\ obs'.logs = 0
          /\ UNCHANGED <<currentCommand, stopHereFlag, runToPositionTarget,
                         stack, pc, breakpoints, rdebug, bpAttr, isEnabled,
                         interruptsPending, jit>>
     /\ obs'.op = "exception" =>
          UNCHANGED <<pc, currentCommand, stack>>]_vars

\* A step stop was decided while the engine was disabled or an interrupt
\* was pending: the execution thread runs on.
C7_Witness ==
  /\ IsPass(obs) /\ obs.bpCalls = 1 /\ obs.stepStop
  /\ (~isEnabled \/ interruptsPending) /\ obs.interrupts = 0
  /\ pc = "run"

\* C10: a pass over the outstanding run-to-position target with the engine
\* enabled and no interrupt pending suspends, and the request is gone when
\* the prompt is entered; a later pass under CONTINUE with no request
\* outstanding suspends only for a breakpoint.
C10_RunToPosition ==
  [][IsPass(obs') =>
       /\ (/\ runToPositionTarget # Nil
           /\ obs'.target = runToPositionTarget
           /\ isEnabled /\ ~interruptsPending)
            => (pc' = "prompt" /\ runToPositionTarget' = Nil)
       /\ (/\ runToPositionTarget = Nil /\ currentCommand = "CONTINUE"
           /\ obs'.target \in Targets
           /\ (breakpointsMuted \/ ~Suspending(bpAttr[obs'.target])))
            => pc' = "run"]_vars

\* The same, for passes over a target whose RDEBUG bit is still set.
C10_WhileArmed ==
  [][(/\ IsPass(obs')
      /\ runToPositionTarget # Nil
      /\ obs'.target = runToPositionTarget
      /\ rdebug[runToPositionTarget]
      /\ isEnabled /\ ~interruptsPending)
       => (pc' = "prompt" /\ runToPositionTarget' = Nil)]_vars

\* The stepping commands over live context chains: calls with any
\* environment, entries that are not call contexts (running blocks) in
\* between, and suspensions at any depth.
NextStep ==
  \/ Enable
  \/ SetCommand(Commands)
  \/ SetRunToPositionCommand({<<"a.r", 1>>})
  \/ PromptReturn
  \/ PushCall({"f"}) \/ Pop
  \/ BeginBlock({1}, {0}, MaxDepth)

SpecStep == InitDecide /\ [][NextStep]_vars

LiveEnvs == { CallEnvs(contexts)[i] : i \in 1..Len(CallEnvs(contexts)) }

\* C8 as stated: after setCommand(STEP_OUT) the command is STEP_OUT, the
\* marker of the innermost call frame is cleared and the marker of every
\* enclosing call frame is set, whether or not two call frames use the
\* same environment.
C8_StepOutAsStated ==
  (obs.op = "setCommand" /\ obs.cmd = "STEP_OUT") =>
    LET envs == CallEnvs(contexts)
    IN /\ currentCommand = "STEP_OUT"
       /\ envs # <<>> => ~stopHereFlag[envs[1]]
       /\ \A i \in 2..Len(envs) : stopHereFlag[envs[i]]

\* C8 amended: after setCommand(STEP_OUT) the command is STEP_OUT, the
\* marker of every enclosing call frame is set, and the marker of the
\* innermost call frame is cleared unless an enclosing call frame uses the
\* same environment (the marker is the environment's, so it is then set).
C8_StepOut ==
  (obs.op = "setCommand" /\ obs.cmd = "STEP_OUT") =>
    LET envs == CallEnvs(contexts)
    IN /\ currentCommand = "STEP_OUT"
       /\ \A i \in 2..Len(envs) : stopHereFlag[envs[i]]
       /\ envs # <<>> =>
            (stopHereFlag[envs[1]] <=>
               \E i \in 2..Len(envs) : envs[i] = envs[1])

\* STEP_OUT was given with two call frames of different environments live
\* under a chain entry that is not a call context.
C8_Witness ==
  /\ obs.op = "setCommand" /\ obs.cmd = "STEP_OUT"
  /\ Len(CallEnvs(contexts)) >= 2
  /\ CallEnvs(contexts)[1] # CallEnvs(contexts)[2]
  /\ Len(contexts) > Len(CallEnvs(contexts))
  /\ ~stopHereFlag[CallEnvs(contexts)[1]]

\* C9: setCommand(c) makes c the current command and leaves no
\* run-to-position target; CONTINUE and STEP_INTO clear the marker of
\* every live call frame, STEP_OVER sets it, PAUSE, FORCE_STEP_INTO and
\* STOP change no marker, and no command changes the marker of an
\* environment that is not the environment of a live call frame.
C9_SetCommand ==
  [][obs'.op = "setCommand" =>
       /\ currentCommand' = obs'.cmd
       /\ runToPositionTarget' = Nil
       /\ obs'.cmd \in {"CONTINUE", "STEP_INTO"} =>
            \A e \in LiveEnvs : ~stopHereFlag'[e]
       /\ obs'.cmd = "STEP_OVER" => \A e \in LiveEnvs : stopHereFlag'[e]
       /\ obs'.cmd \in {"PAUSE", "FORCE_STEP_INTO", "STOP"} =>
            stopHereFlag' = stopHereFlag
       /\ \A e \in Envs \ LiveEnvs : stopHereFlag'[e] = stopHereFlag[e]
  ]_vars

\* STEP_OVER was given at a prompt with a live call frame, and an
\* environment that no live call frame uses has kept its cleared marker.
C9_Witness ==
  /\ obs.op = "setCommand" /\ obs.cmd = "STEP_OVER"
  /\ LiveEnvs # {}
  /\ \E e \in Envs \ LiveEnvs : ~stopHereFlag[e]
  /\ runToPositionTarget = Nil /\ ~rdebug[1]
  /\ pc = "prompt"

\* Enabling and disabling, with the program changing the JIT level and
\* the engine toggling itself around a condition and the stack builder.
InitToggle == InitState({Loaded}, JitLevels)

NextToggle ==
  \/ Enable \/ Disable \/ SetJit
  \/ AddBreakpoint({<<"a.r", 1>>})
  \/ SetInfo({<<"a.r", 1>>}, {<<"T", "OK", TRUE>>, <<"F", "", TRUE>>})
  \/ BeginBlock({1}, {0}, 1) \/ Pop \/ PromptReturn

SpecToggle == InitToggle /\ [][NextToggle]_vars

\* What enable() and disable() can change.
toggled == <<isEnabled, funTab, prevDoBegin, jit, prevJIT>>

\* C6: enable() while enabled and disable() while disabled change nothing;
\* isEnabled() is true exactly when the last effective call was enable();
\* the saved primitive is never the wrapper; an effective enable() saves
\* the slot's primitive and the JIT level, they stay saved while the engine
\* is enabled, and disable() puts both back.
C6_Toggle ==
  [][/\ (obs'.op = "enable" /\ isEnabled) => UNCHANGED toggled
     /\ (obs'.op = "disable" /\ ~isEnabled) => UNCHANGED toggled
     /\ obs'.op = "enable" => isEnabled'
     /\ obs'.op = "disable" => ~isEnabled'
     /\ obs'.op \notin {"enable", "disable"} => isEnabled' = isEnabled
     /\ prevDoBegin' # debugDoBegin
     /\ (obs'.op = "enable" /\ ~isEnabled) =>
          /\ prevDoBegin' = funTab /\ prevJIT' = jit
          /\ funTab' = debugDoBegin
     /\ (isEnabled /\ isEnabled') => UNCHANGED <<prevDoBegin, prevJIT>>
     /\ (obs'.op = "disable" /\ isEnabled) =>
          /\ funTab' = prevDoBegin /\ jit' = prevJIT
          /\ funTab' = do_begin
  ]_vars

\* disable() has put back the primitive and a JIT level other than the 0
\* that enable() sets.
C6_Witness ==
  /\ obs.op = "disable" /\ ~isEnabled
  /\ funTab = do_begin /\ jit = prevJIT /\ jit # 0

\* The STOP command against breakpoints, step stops and interrupts.
NextStop ==
  \/ Enable
  \/ AddBreakpoint({<<"a.r", 1>>})
  \/ SetInfo({<<"a.r", 1>>}, {<<"T", "OK", TRUE>>})
  \/ SetCommand({"CONTINUE", "STOP"})
  \/ PromptReturn
  \/ BeginBlock(Targets, 0..MaxStmts, 1) \/ Statement({CallExpr("f")}) \/ Pop
  \/ RaiseInterrupt \/ CheckInterrupt

SpecStop == InitDecide /\ [][NextStop]_vars

\* C11: a breakpoint decision made with command STOP, the engine enabled
\* and no interrupt pending sets the command to CONTINUE and raises one
\* interrupt; it evaluates no condition and no log expression, builds no
\* stack, leaves the stored stack as it was and does not enter the prompt.
C11_Stop ==
  [][(/\ obs'.bpCalls = 1
      /\ currentCommand = "STOP" /\ isEnabled /\ ~interruptsPending)
       => /\ currentCommand' = "CONTINUE"
          /\ obs'.interrupts = 1
          /\ interruptsPending' \/ obs'.aborted
          /\ obs'.conds = 0 /\ obs'.logs = 0 /\ obs'.messages = 0
          /\ obs'.prompts = 0 /\ pc' = pc
          /\ stack' = stack
          /\ isEnabled']_vars

\* STOP was decided at the statement that carries a breakpoint whose
\* condition holds and that suspends: the thread runs on with the
\* interrupt pending.
C11_Witness ==
  /\ obs.op = "statement" /\ obs.bpCalls = 1 /\ obs.interrupts = 1
  /\ Suspending(obs.bp) /\ ~breakpointsMuted
  /\ currentCommand = "CONTINUE" /\ interruptsPending
  /\ pc = "run"

\* C12 as stated: a decision that meets STOP while an interrupt is pending
\* raises no interrupt and does not suspend, and no later decision raises
\* an interrupt or suspends on account of that STOP.
C12_StopRace ==
  [][/\ (/\ obs'.bpCalls = 1
         /\ currentCommand = "STOP" /\ isEnabled /\ interruptsPending)
          => /\ obs'.interrupts = 0 /\ obs'.prompts = 0
             /\ interruptsPending' /\ pc' = pc
     /\ (obs.raced /\ obs'.bpCalls = 1)
          => (obs'.interrupts = 0 /\ obs'.prompts = 0)]_vars

\* The part of C12 that holds: the decision that meets STOP while an
\* interrupt is pending does nothing, and leaves STOP the current command.
C12_AtTheDecision ==
  [][(/\ obs'.bpCalls = 1
      /\ currentCommand = "STOP" /\ isEnabled /\ interruptsPending)
       => /\ obs'.interrupts = 0 /\ obs'.prompts = 0
          /\ obs'.conds = 0 /\ obs'.logs = 0
          /\ interruptsPending' /\ pc' = pc
          /\ currentCommand' = "STOP" /\ obs'.raced]_vars

\* PAUSE and FORCE_STEP_INTO against blocks of physical and other files, in
\* call frames with and without marker, with breakpoints muted or not.
NextPause ==
  \/ Enable \/ MuteBreakpoints
  \/ AddBreakpoint({<<"a.r", 1>>})
  \/ SetInfo({<<"a.r", 1>>}, {<<"ERR", "ERR", FALSE>>})
  \/ SetCommand({"CONTINUE", "PAUSE", "FORCE_STEP_INTO", "STEP_OVER"})
  \/ PromptReturn
  \/ PushCall({"g"}) \/ Pop
  \/ BeginBlock({1, Internal}, {1}, 2) \/ Statement({CallExpr("g")})

SpecPause == InitDecide /\ [][NextPause]_vars

\* C13: with command PAUSE or FORCE_STEP_INTO, the engine enabled and no
\* interrupt pending, the next statement of any block is a step stop and
\* the engine enters the prompt before the statement is evaluated.
C13_Pause ==
  [][(/\ obs'.op = "statement"
      /\ currentCommand \in {"PAUSE", "FORCE_STEP_INTO"}
      /\ isEnabled /\ ~interruptsPending)
       => /\ obs'.bpCalls = 1 /\ obs'.stepStop
          /\ obs'.prompts = 1 /\ pc' = "prompt"
          /\ Head(contexts').left = Head(contexts).left - 1]_vars

\* FORCE_STEP_INTO has suspended, with breakpoints muted, at a statement
\* of a block that is not in a physical file and runs in a call frame.
C13_Witness ==
  /\ obs.op = "statement" /\ obs.cmd = "FORCE_STEP_INTO" /\ obs.stepStop
  /\ pc = "prompt" /\ breakpointsMuted
  /\ ~Head(contexts).phys /\ Head(contexts).env # Nil

\* C14: when the prompt is entered the command is CONTINUE, no
\* run-to-position target is set, the marker of every live call frame is
\* cleared, and the stored stack (what getStack() returns) is the stack of
\* the context chain of this suspension.
C14_AtPrompt ==
  [][(pc = "run" /\ pc' = "prompt") =>
       /\ obs'.prompts = 1
       /\ currentCommand' = "CONTINUE"
       /\ runToPositionTarget' = Nil
       /\ \A i \in 1..Len(CallEnvs(contexts')) :
            ~stopHereFlag'[CallEnvs(contexts')[i]]
       /\ stack' = buildStack(State', getContextDump(State', CallExpr("{"))).val
       /\ isEnabled']_vars

\* The prompt was entered two call frames deep with a stack of two frames,
\* after the run-to-position target was reached.
C14_Witness ==
  /\ obs.op = "begin" /\ obs.prompts = 1 /\ pc = "prompt"
  /\ Len(CallEnvs(contexts)) >= 2 /\ Len(stack) >= 2
  /\ obs.target = 1 /\ runToPositionTarget = Nil /\ ~rdebug[1]

\* Breakpoints of every configuration against passes under CONTINUE and
\* STEP_INTO, with and without run-to-position target and muting.
NextCond ==
  \/ Enable \/ MuteBreakpoints
  \/ AddBreakpoint({<<"a.r", 1>>})
  \/ SetInfo({<<"a.r", 1>>}, Configs)
  \/ SetCommand({"CONTINUE", "STEP_INTO"})
  \/ SetRunToPositionCommand({<<"a.r", 1>>})
  \/ PromptReturn
  \/ BeginBlock(Targets, 0..MaxStmts, 1) \/ Statement({CallExpr("f")}) \/ Pop

SpecCond == InitDecide /\ [][NextCond]_vars

\* The key of the entry whose BreakpointInfo has address id.
KeyOf(id) ==
  CHOOSE k \in Keys : breakpoints[k] # NoEntry /\ breakpoints[k].id = id

\* The state the pass just made would have left, had the condition of the
\* BreakpointInfo at address id been cond.
Replayed(id, cond) ==
  LET k  == KeyOf(id)
      s0 == [State EXCEPT !.breakpoints[k].condition = cond]
      r  == IF obs'.op = "begin"
            THEN doBeginEntry([Begin(s0, "begin", NoKey)
                                 EXCEPT !.obs.target = obs'.target],
                              obs'.target, Head(contexts').left, NoChoice)
            ELSE doBeginStatement(Begin(s0, "statement", NoKey),
                                  obs'.target, CallExpr("f"), NoChoice)
  IN [r EXCEPT !.breakpoints[k].condition = breakpoints[k].condition]

\* C15: a breakpoint whose condition raises an error is decided exactly as
\* if its condition were false: the pass leaves the state it would leave
\* with a false condition, the log expression is not evaluated, nothing is
\* reported, the evaluation is not aborted, the breakpoint does not make
\* the engine suspend, and the statement is the next to be evaluated.
C15_ConditionError ==
  [][(/\ obs'.bpCalls = 1 /\ Live /\ ~breakpointsMuted
      /\ obs'.bp \in OwnedIds(breakpoints)
      /\ breakpoints[KeyOf(obs'.bp)].condition = "ERR")
       => /\ State' = Replayed(obs'.bp, "F")
          /\ obs'.conds = 1 /\ obs'.logs = 0 /\ obs'.messages = 0
          /\ ~obs'.aborted /\ isEnabled'
          /\ (pc' = "prompt") <=>
               (obs'.stepStop \/ obs'.target = runToPositionTarget)
          /\ obs'.op = "statement" =>
               Head(contexts').left = Head(contexts).left - 1]_vars

\* A pass under CONTINUE met a breakpoint that suspends and logs and whose
\* condition raises an error: the thread runs on.
C15_Witness ==
  /\ IsPass(obs) /\ obs.bpCalls = 1 /\ obs.conds = 1 /\ obs.logs = 0
  /\ obs.bp \in OwnedIds(breakpoints)
  /\ breakpoints[KeyOf(obs.bp)].condition = "ERR"
  /\ breakpoints[KeyOf(obs.bp)].evaluateAndLog = "OK"
  /\ breakpoints[KeyOf(obs.bp)].suspend
  /\ ~breakpointsMuted /\ isEnabled /\ pc = "run"

\* C16: a decision made with the engine enabled, no interrupt pending and
\* a command other than STOP suspends exactly if it is a step stop, or the
\* position is the run-to-position target, or breakpoints are not muted and
\* the attached BreakpointInfo has a condition that is empty or true and
\* suspend set; the condition is evaluated exactly if breakpoints are not
\* muted, an info is attached and its text is not empty; the log expression
\* exactly if moreover the condition holds and the log text is not empty,
\* and it reports one message, whether it fails or not.
C16_Decision ==
  [][(obs'.bpCalls = 1 /\ Live) =>
       LET id       == obs'.bp
           attached == id # NullPtr /\ ~breakpointsMuted
           info     == breakpoints[KeyOf(id)]
           holds    == attached /\ CondHolds(info.condition)
           logged   == holds /\ info.evaluateAndLog # ""
       IN /\ (pc' = "prompt") <=>
               \/ obs'.stepStop
               \/ (obs'.target # Nil /\ obs'.target = runToPositionTarget)
               \/ (holds /\ info.suspend)
          /\ obs'.prompts = (IF pc' = "prompt" THEN 1 ELSE 0)
          /\ obs'.conds = (IF attached /\ info.condition # "" THEN 1 ELSE 0)
          /\ obs'.logs = (IF logged THEN 1 ELSE 0)
          /\ obs'.messages = obs'.logs
          /\ ~obs'.aborted /\ isEnabled']_vars

\* A breakpoint whose log expression fails has reported the failure and
\* suspended a pass that was no step stop.
C16_Witness ==
  /\ IsPass(obs) /\ obs.bpCalls = 1 /\ ~obs.stepStop /\ obs.cmd # "STEP_INTO"
  /\ obs.bp \in OwnedIds(breakpoints)
  /\ breakpoints[KeyOf(obs.bp)].evaluateAndLog = "ERR"
  /\ breakpoints[KeyOf(obs.bp)].condition = "T"
  /\ obs.logs = 1 /\ obs.messages = 1
  /\ ~rdebug[2] /\ obs.target = 1
  /\ pc = "prompt"

\* Evaluations the engine starts: conditions, log expressions and stack
\* builds, at suspensions and for the last error, enabled and disabled.
NextEval ==
  \/ Enable \/ Disable
  \/ AddBreakpoint({<<"a.r", 1>>})
  \/ SetInfo({<<"a.r", 1>>},
             {<<"T", "OK", TRUE>>, <<"ERR", "", FALSE>>, <<"", "ERR", FALSE>>})
  \/ PromptReturn
  \/ PushCall({"f"}) \/ Pop
  \/ BeginBlock({1}, {0}, 2)
  \/ HandleException \/ GetLastErrorStack

SpecEval == InitDecide /\ [][NextEval]_vars

\* C17: while the engine evaluates a condition or a log expression or
\* builds a stack, the wrapper is not in the slot, so no block of the code
\* that runs then reaches the engine (no decision, no suspension, no change
\* of command or markers on its account); after the call the engine is
\* enabled exactly if it was before, with the same function in the slot.
C17_Sandbox ==
  [][(obs'.conds + obs'.logs + obs'.builds > 0) =>
       /\ obs'.nested = 0
       /\ obs'.bpCalls <= 1 /\ obs'.prompts <= 1
       /\ isEnabled' = isEnabled /\ funTab' = funTab
       /\ prevDoBegin' = prevDoBegin]_vars

\* A condition that raises an error was evaluated at an armed position;
\* the engine is enabled as before.
C17_Witness ==
  /\ obs.op = "begin" /\ obs.conds = 1 /\ obs.nested = 0
  /\ obs.bp \in OwnedIds(breakpoints)
  /\ breakpoints[KeyOf(obs.bp)].condition = "ERR"
  /\ isEnabled /\ funTab = debugDoBegin

\* ------------------------------------------------------ the reported stack
\* Chains of calls and the blocks of their bodies as they grow (three calls
\* with a block each fit), with a breakpoint at a line of the physical file.
ChainDepth == MaxDepth + 3

NextStack ==
  \/ Enable
  \/ AddBreakpoint({<<"a.r", 1>>})
  \/ PromptReturn
  \/ PushCallTo({"f"}, {1, 2}, ChainDepth)
  \/ BeginBlock({1}, {1}, ChainDepth)
  \/ Statement({CallExpr("f")})

SpecStack == InitDecide /\ [][NextStack]_vars

\* The call contexts of the chain, outermost first.
Calls(ctxs) == Reverse(SelectSeq(ctxs, isCallContext))

\* A top level that is not physical followed by calls made from physical
\* positions only.
PhysicalChain(cs) ==
  /\ cs # <<>>
  /\ ~isPhysicalFile(cs[1].srcref)
  /\ \A i \in 2..Len(cs) : isPhysicalFile(cs[i].srcref)

\* C18: a suspension inside the innermost of n calls made from physical
\* positions below a top level that is not physical reports exactly n
\* frames, outermost first: frame i is the environment of call i at the
\* position it has reached, and every frame but the first carries the name
\* of its function (the first an empty one).
C18_PhysicalFrames ==
  [][(obs'.prompts = 1 /\ PhysicalChain(Calls(contexts'))
        /\ isPhysicalFile(R_Srcref')) =>
       LET cs == Calls(contexts')
           n  == Len(cs)
       IN /\ Len(stack') = n
          /\ \A i \in 1..n :
               /\ stack'[i].environment = cs[i].env
               /\ stack'[i].functionName = IF i = 1 THEN "" ELSE cs[i].name
               /\ <<stack'[i].fileId, stack'[i].line>> =
                    srcrefToPosition(IF i < n THEN cs[i + 1].srcref
                                     ELSE R_Srcref')]_vars

\* Suspended inside the third of three such calls, three frames reported.
C18_Witness ==
  /\ pc = "prompt" /\ obs.prompts = 1
  /\ PhysicalChain(Calls(contexts)) /\ Len(Calls(contexts)) = 3
  /\ Len(stack) = 3 /\ stack[2].functionName # "" /\ stack[3].functionName # ""

\* Chains that mix blocks of the physical file with blocks of generated or
\* library code, and environments marked as stack bottom, up to the first
\* suspension; the breakpoint is at a statement, not at the blocks.
BuilderDepth == MaxDepth + 2

NextBuilder ==
  \/ Enable
  \/ AddBreakpoint({<<"a.r", 2>>})
  \/ MarkStackBottom({1})
  \/ PushCallTo({"g"}, {1, 2}, BuilderDepth)
  \/ BeginBlock({1, Internal}, {1}, BuilderDepth)
  \/ Statement({CallExpr("f")})

SpecBuilder == InitDecide /\ [][NextBuilder]_vars

\* The frame lies in the physical file.
PhysicalFrame(f) == f.fileId \in Files

\* C19 as stated: every frame of the reported stack has a position in a
\* physical file.
C19_OnlyPhysical ==
  \A i \in 1..Len(stack) : PhysicalFrame(stack[i])

\* The srcref the builder uses for entry i of a dump: the entry's own, else
\* the one of its call expression, else the declaration of the function of
\* the nearest entry before it that has one.
EffectiveSrcref(d, i) ==
  IF d[i].srcref # Nil THEN d[i].srcref
  ELSE IF d[i].call.srcref # Nil THEN d[i].call.srcref
  ELSE LET js == {j \in 1..(i - 1) : d[j].function # NoFun}
       IN IF js = {} THEN Nil
          ELSE getFunctionSrcref(
                 d[CHOOSE j \in js : \A k \in js : k <= j].function)

\* No entry of the dump follows an environment marked as stack bottom.
NoSentinel(s, d) ==
  \A i \in 2..Len(d) :
    ~(d[i - 1].environment # Nil /\ s.stackBottomAttr[d[i - 1].environment]
      /\ d[i].environment # Nil)

\* C19, amended: without a stack-bottom reset the reported stack starts at
\* the first entry of the chain whose effective position is physical and
\* holds every entry from there on, physical or not, each at its effective
\* position; there is none before it, and no stack without such an entry.
C19_FromFirstPhysical ==
  [][(obs'.prompts = 1) =>
       LET d    == getContextDump(State', CallExpr("{"))
           phys == {i \in 1..Len(d) : isPhysicalFile(EffectiveSrcref(d, i))}
       IN NoSentinel(State', d) =>
            IF phys = {} THEN stack' = <<>>
            ELSE LET first == CHOOSE i \in phys : \A k \in phys : i <= k
                 IN /\ Len(stack') = Len(d) - first + 1
                    /\ PhysicalFrame(stack'[1])
                    /\ \A k \in 1..Len(stack') :
                         <<stack'[k].fileId, stack'[k].line>> =
                           srcrefToPosition(EffectiveSrcref(d, first + k - 1))
      ]_vars

\* A reported stack that starts in the physical file and holds a frame of
\* code that is in no physical file.
C19_Witness ==
  /\ pc = "prompt" /\ obs.prompts = 1
  /\ NoSentinel(State, getContextDump(State, CallExpr("{")))
  /\ Len(stack) >= 3 /\ PhysicalFrame(stack[1])
  /\ \E i \in 2..Len(stack) : ~PhysicalFrame(stack[i])

\* ------------------------------------------------- the stack of an error
\* Chains of calls and blocks of the physical file that end in a failure;
\* the host reads and resets the stack of the error, and the program is
\* run again only after the reset.
NextError ==
  \/ Enable
  \/ (lastErrorStackDump = <<>> /\ PushCallTo({"f"}, {1, 2}, ChainDepth))
  \/ (lastErrorStackDump = <<>> /\ BeginBlock({1}, {1}, ChainDepth))
  \/ Statement({CallExpr("f")})
  \/ Fail({1})
  \/ GetLastErrorStack \/ ResetLastErrorStack

SpecError == InitDecide /\ [][NextError]_vars

\* The entries of a snapshot that are calls of the program: all but the
\* handler's and the closing entry of the current position.
Failing(d) == SubSeq(d, 1, Len(d) - 2)

NextSnapshot ==
  \/ Enable
  \/ AddBreakpoint({<<"a.r", 1>>}) \/ RemoveBreakpoint({<<"a.r", 1>>})
  \/ SetCommand({"CONTINUE", "STEP_OVER"})
  \/ PromptReturn
  \/ PushCallTo({"f"}, {1}, MaxDepth) \/ Pop
  \/ BeginBlock({1}, {0}, MaxDepth)
  \/ Fail({2})
  \/ GetStack \/ GetLastErrorStack \/ ResetLastErrorStack

SpecSnapshot == InitDecide /\ [][NextSnapshot]_vars

\* What getLastErrorStack() would return in the current state.
LastErrorStack == getLastErrorStack(State).val

\* C21: the snapshot of the last failure stays until it is reset.  A step
\* that is neither a failure nor resetLastErrorStack() (a command, a
\* breakpoint operation, a suspension, a read of either stack) leaves the
\* snapshot and the environment attributes the builder reads as they were,
\* and every getLastErrorStack() returns the stack built of that snapshot,
\* so all reads in between return the same sequence; after
\* resetLastErrorStack() the snapshot is gone and a read returns the empty
\* sequence; recording a failure neither suspends nor changes the current
\* command.
C21_Snapshot ==
  [][/\ (obs'.op \notin {"failure", "resetLastErrorStack"}) =>
          /\ lastErrorStackDump' = lastErrorStackDump
          /\ stackBottomAttr' = stackBottomAttr
          /\ realEnvAttr' = realEnvAttr
     /\ (obs'.op = "getLastErrorStack") =>
          /\ obs'.frames = LastErrorStack
          /\ lastErrorStackDump = <<>> => obs'.frames = <<>>
     /\ (obs'.op = "resetLastErrorStack") => lastErrorStackDump' = <<>>
     /\ (obs'.op = "failure") =>
          /\ pc' = pc /\ obs'.prompts = 0 /\ obs'.bpCalls = 0
          /\ currentCommand' = currentCommand]_vars

\* The stack of the last error is read at a suspension that built another
\* live stack since the failure, and has frames.
C21_Witness ==
  /\ obs.op = "getLastErrorStack" /\ obs.frames # <<>>
  /\ pc = "prompt" /\ stack # <<>> /\ stack # obs.frames

\* C22: while the execution thread is blocked in the prompt callback it
\* evaluates nothing (no block is entered, no statement reached, the chain
\* and the current position stay); a command the host gives then becomes
\* the current command at once and still is when the callback returns;
\* steps of the program that reach no decision leave it alone; and the stop
\* decision of the next statement reached is the one that command gives.
C22_CommandAtPrompt ==
  [][/\ (pc = "prompt") =>
          /\ obs'.op \notin {"begin", "statement", "env"}
          /\ contexts' = contexts /\ R_Srcref' = R_Srcref
     /\ (pc = "prompt" /\ obs'.op = "setCommand") =>
          /\ currentCommand' = obs'.cmd /\ pc' = "prompt"
     /\ (obs'.op \in {"resume", "env"}) => currentCommand' = currentCommand
     /\ (obs'.op = "statement") =>
          /\ obs'.cmd = currentCommand
          /\ obs'.stepStop = stopHere(State, Head(contexts).env,
                                      Head(contexts).phys)]_vars

\* A statement stops for the step command given at the prompt before.
C22_Witness ==
  /\ obs.op = "statement" /\ obs.cmd = "STEP_OVER" /\ obs.stepStop
  /\ pc = "prompt" /\ currentCommand = "CONTINUE"

\* ------------------------------------------- run-to-position and the store
\* The addresses of the entries the store records as resolved to target t.
EntriesAt(bps, t) ==
  {bps[k].id : k \in {x \in Keys : bps[x] # NoEntry /\ bps[x].srcref = t}}

\* Breakpoints and run-to-position requests while files are parsed again
\* and dropped, with suspensions at block entries; every srcref the
\* resolver hands out carries the position it was asked for.
NextRunTo ==
  \/ Enable
  \/ AddBreakpoint(Keys) \/ RemoveBreakpoint(Keys)
  \/ SetCommand({"CONTINUE"})
  \/ SetRunToPositionCommand(Keys)
  \/ Reload
  \/ PromptReturn
  \/ BeginBlock(Targets, {0}, 1) \/ Pop

SpecRunTo == Init /\ [][NextRunTo]_vars

DecisionCycle == obs'.bpCalls = 1 /\ isEnabled /\ ~interruptsPending

\* C24 as stated: every decision cycle that runs while a run-to-position
\* target is outstanding ends with none outstanding.
C24_OneShotPerCycle ==
  [][(DecisionCycle /\ runToPositionTarget # Nil) =>
       runToPositionTarget' = Nil]_vars

\* C24, amended: a decision cycle that suspends, or that meets STOP, ends
\* with no run-to-position target outstanding and the target armed only if
\* the store holds an entry resolved to it; a decision cycle that does not
\* suspend leaves the target outstanding and every armed bit as it was.
C24_OneShotPerSuspension ==
  [][(DecisionCycle /\ runToPositionTarget # Nil) =>
       LET t == runToPositionTarget
       IN IF obs'.prompts = 1 \/ currentCommand = "STOP"
          THEN /\ runToPositionTarget' = Nil
               /\ rdebug'[t] <=> (EntriesAt(breakpoints', t) # {})
          ELSE /\ runToPositionTarget' = t
               /\ rdebug' = rdebug]_vars

\* A suspension at a breakpoint that is not the target has cleared the
\* run-to-position request.
C24_Witness ==
  /\ pc = "prompt" /\ obs.prompts = 1
  /\ obs.reset # Nil /\ obs.target # obs.reset
  /\ runToPositionTarget = Nil /\ ~rdebug[obs.reset]

\* -------------------------------------------------------------- step over
\* The innermost call context.
CurrentCall(ctxs) ==
  LET cs == SelectSeq(ctxs, isCallContext)
  IN IF cs = <<>> THEN OtherCtx ELSE Head(cs)

\* No call made while STEP_OVER was current is live.
NoCallee == \A i \in 1..Len(contexts) : contexts[i].name # "g"

\* STEP_OVER at suspensions in blocks of calls.  The calls made while
\* STEP_OVER is current are calls of "g", all others calls of "f", and
\* STEP_OVER is given while no call of "g" is live: the frames named "f"
\* are those live at the command, the frames named "g" those created after
\* it.
OverDepth == MaxDepth + 1

NextOver ==
  \/ Enable
  \/ AddBreakpoint({<<"a.r", 1>>})
  \/ (NoCallee /\ SetCommand({"STEP_OVER"}))
  \/ PromptReturn
  \/ (currentCommand # "STEP_OVER" /\ PushCallTo({"f"}, {1}, OverDepth))
  \/ (currentCommand = "STEP_OVER" /\ PushCallTo({"g"}, {1, 2}, OverDepth))
  \/ Pop
  \/ BeginBlock({2}, {1}, OverDepth)
  \/ Statement({CallExpr("g")})

SpecOver == InitDecide /\ [][NextOver]_vars

\* A statement is reached in a block of a call while STEP_OVER is current.
OverStatement ==
  /\ obs'.op = "statement" /\ currentCommand = "STEP_OVER"
  /\ isEnabled /\ ~interruptsPending
  /\ CurrentCall(contexts).kind = "call"

\* C25 as stated: under STEP_OVER no statement of a call frame created
\* after the command is a step stop, and a statement of a frame that was
\* live at the command suspends.
C25_StepOverAsStated ==
  [][OverStatement =>
       IF CurrentCall(contexts).name = "g"
       THEN ~obs'.stepStop
       ELSE obs'.stepStop /\ pc' = "prompt"]_vars

\* C25, amended: under STEP_OVER a statement of a call frame is a step stop
\* exactly when the environment of the frame carries the stop-here marker.
\* The frames live at the command carry it, so the next statement in one of
\* them suspends; a frame created after the command runs without step
\* stops unless its environment is one the command marked.
C25_StepOver ==
  [][OverStatement =>
       LET c == CurrentCall(contexts)
       IN /\ obs'.stepStop <=> stopHereFlag[c.env]
          /\ obs'.stepStop => pc' = "prompt"
          /\ c.name = "f" => obs'.stepStop]_vars

\* A statement of a call made after the command has passed without a step
\* stop while the frame the command was given in waits.
C25_Witness ==
  /\ obs.op = "statement" /\ obs.cmd = "STEP_OVER" /\ ~obs.stepStop
  /\ pc = "run" /\ currentCommand = "STEP_OVER"
  /\ CurrentCall(contexts).name = "g"
  /\ \E i \in 1..Len(contexts) :
       contexts[i].name = "f" /\ stopHereFlag[contexts[i].env]

\* --------------------------------------------------------------- step out
\* The live call frames of "f", innermost first.
Callers(ctxs) == SelectSeq(ctxs, LAMBDA c : c.kind = "call" /\ c.name = "f")

\* STEP_OUT at suspensions in a call of "f" made from a call of "f".  The
\* calls made while STEP_OUT is current are calls of "g", and STEP_OUT is
\* given while exactly two calls of "f" and no call of "g" are live: while
\* STEP_OUT is current, the frame F the command was given in is live exactly
\* when two calls of "f" are, and it is then the innermost of them.
OutDepth == MaxDepth + 3

\* Calls are made by the statements of blocks, and a block is the body of
\* a call.
InBlock == contexts # <<>> /\ Head(contexts).kind = "block"
InCall  == contexts # <<>> /\ Head(contexts).kind = "call"

NextOut ==
  \/ Enable
  \/ AddBreakpoint({<<"a.r", 1>>})
  \/ (NoCallee /\ Len(Callers(contexts)) = 2 /\ SetCommand({"STEP_OUT"}))
  \/ PromptReturn
  \/ (currentCommand # "STEP_OUT" /\ Len(Callers(contexts)) < 2
        /\ (InBlock \/ contexts = <<>>)
        /\ PushCallTo({"f"}, {1, 2}, OutDepth))
  \/ (currentCommand = "STEP_OUT" /\ InBlock
        /\ PushCallTo({"g"}, {1, 2}, OutDepth))
  \/ Pop
  \/ (InCall /\ BeginBlock({2}, {2}, OutDepth))
  \/ Statement({CallExpr("g")})

SpecOut == InitDecide /\ [][NextOut]_vars

\* A statement is reached in a block of a call while STEP_OUT is current.
OutStatement ==
  /\ obs'.op = "statement" /\ currentCommand = "STEP_OUT"
  /\ isEnabled /\ ~interruptsPending
  /\ CurrentCall(contexts).kind = "call"

\* C26 as stated: under STEP_OUT no statement of F or of a frame created
\* while F is live is a step stop, and once F has returned a statement of
\* its caller suspends.
C26_StepOutAsStated ==
  [][OutStatement =>
       LET fs == Callers(contexts)
       IN /\ Len(fs) = 2 => ~obs'.stepStop
          /\ (Len(fs) = 1 /\ CurrentCall(contexts).name = "f") =>
               (obs'.stepStop /\ pc' = "prompt")]_vars

\* C26, amended: under STEP_OUT a statement of a call frame is a step stop
\* exactly when the environment of the frame carries the stop-here marker.
\* F runs without step stops unless its environment is the one of an
\* enclosing call frame, a frame created while F is live runs without them
\* unless its environment carries the marker, and once F has returned a
\* statement of its caller suspends.
C26_StepOut ==
  [][OutStatement =>
       LET fs == Callers(contexts)
           c  == CurrentCall(contexts)
       IN /\ obs'.stepStop <=> stopHereFlag[c.env]
          /\ obs'.stepStop => pc' = "prompt"
          /\ (Len(fs) = 2 /\ c.name = "f" /\ c.env # fs[2].env) =>
               ~obs'.stepStop
          /\ (Len(fs) = 2 /\ c.name = "g") =>
               (obs'.stepStop <=>
                  (c.env = fs[2].env \/ stopHereFlag[c.env]))
          /\ (Len(fs) = 1 /\ c.name = "f") => obs'.stepStop]_vars

\* A statement of F has passed without a step stop under STEP_OUT while the
\* caller of F, which has another environment, carries the marker.
C26_Witness ==
  /\ obs.op = "statement" /\ obs.cmd = "STEP_OUT" /\ ~obs.stepStop
  /\ pc = "run" /\ currentCommand = "STEP_OUT"
  /\ Len(Callers(contexts)) = 2
  /\ CurrentCall(contexts) = Callers(contexts)[1]
  /\ stopHereFlag[Callers(contexts)[2].env]
  /\ ~stopHereFlag[Callers(contexts)[1].env]

\* ------------------------------------------------- names in the built stack
\* Calls of both functions, in both environments, with blocks in the
\* physical file and in none as their bodies and a stack-bottom environment.
NextNames ==
  \/ Enable
  \/ AddBreakpoint({<<"a.r", 2>>})
  \/ MarkStackBottom({1})
  \/ PushCallTo(Functions, {1, 2}, BuilderDepth)
  \/ (InCall /\ BeginBlock({1, Internal}, {1}, BuilderDepth))
  \/ Statement({CallExpr("f")})

SpecNames == InitDecide /\ [][NextNames]_vars

\* C27: in the stack built at a suspension the first frame has the empty
\* functionName and every later frame has the function name of the call
\* expression of the chain entry just before its own (the frames are the
\* last entries of the chain, in order).
C27_NameOneBehind ==
  [][(obs'.prompts = 1 /\ stack' # <<>>) =>
       LET d   == getContextDump(State', CallExpr("{"))
           off == Len(d) - Len(stack')
       IN /\ off >= 0
          /\ stack'[1].functionName = ""
          /\ \A k \in 2..Len(stack') :
               stack'[k].functionName =
                 getCallFunctionName(d[off + k - 1].call)]_vars

\* A stack of three frames was built after a stack-bottom reset and after
\* an entry that was not reported, with different names behind its frames.
C27_Witness ==
  /\ obs.prompts = 1 /\ Len(stack) >= 3
  /\ stack[1].functionName = ""
  /\ stack[2].functionName # stack[3].functionName
  /\ LET d == getContextDump(State, CallExpr("{"))
     IN /\ ~NoSentinel(State, d)
        /\ Len(d) > Len(stack) + 1

\* ------------------------------------------------- the slot while disabled
\* The engine is switched on and off while blocks of two statements run.
NextSlot ==
  \/ Enable \/ Disable
  \/ AddBreakpoint({<<"a.r", 1>>})
  \/ PromptReturn
  \/ BeginBlock({1, 2}, {2}, MaxDepth)
  \/ Statement({CallExpr("f")})
  \/ Pop

SpecSlot == InitDecide /\ [][NextSlot]_vars

\* C28 as stated: disable() leaves the wrapper in the dispatch slot.
C28_WrapperStays ==
  [][(obs'.op = "disable" /\ isEnabled) => funTab' = debugDoBegin]_vars

\* C28, amended: disable() puts the saved primitive back into the dispatch
\* slot, so the wrapper is not in the slot while the engine is disabled and
\* no block entered then reaches the engine; the isEnabled flag makes the
\* activations of the wrapper that were running when the engine was
\* disabled skip firing.
C28_WrapperRemoved ==
  [][/\ (obs'.op = "disable" /\ isEnabled) =>
          (funTab' = prevDoBegin /\ funTab' # debugDoBegin)
     /\ ~isEnabled' => funTab' # debugDoBegin
     /\ ~isEnabled => obs'.op # "begin"
     /\ (~isEnabled /\ obs'.bpCalls = 1) =>
          /\ obs'.op = "statement"
          /\ pc' = "run" /\ obs'.prompts = 0
          /\ obs'.conds = 0 /\ obs'.logs = 0
          /\ currentCommand' = currentCommand]_vars

\* A statement with a breakpoint was passed without firing by an activation
\* of the wrapper that was running when the engine was disabled.
C28_Witness ==
  /\ obs.op = "statement" /\ obs.bpCalls = 1 /\ obs.prompts = 0
  /\ ~isEnabled /\ funTab = do_begin /\ pc = "run"
  /\ obs.bp # NullPtr

\* ---------------------------------------------------------- armed entries
\* C29: every entry of the store that records a srcref has that srcref
\* armed (RDEBUG bit set) and a BreakpointInfo attached to it.
C29_ArmedEntries ==
  \A k \in Keys :
    (breakpoints[k] # NoEntry /\ breakpoints[k].srcref # Nil) =>
      /\ rdebug[breakpoints[k].srcref]
      /\ bpAttr[breakpoints[k].srcref] # NullPtr

\* -------------------------------------------------------------- step into
\* STEP_INTO and the commands that leave markers behind, with blocks in the
\* physical file and in none, at top level and in a call, while the engine
\* is switched on and off and an interrupt may be pending.
NextInto ==
  \/ Enable \/ Disable
  \/ RaiseInterrupt
  \/ AddBreakpoint({<<"a.r", 1>>})
  \/ SetCommand({"STEP_INTO", "STEP_OVER", "FORCE_STEP_INTO"})
  \/ PromptReturn
  \/ PushCallTo({"f"}, {1}, 2)
  \/ Pop
  \/ BeginBlock({1, 2, Internal}, {1}, 2)
  \/ Statement({CallExpr("f")})

SpecInto == InitDecide /\ [][NextInto]_vars

\* C30: under STEP_INTO a statement is a step stop exactly when the entry
\* position of its block lies in a physical file, whatever the marker of
\* its frame; with the engine enabled and no interrupt pending the step
\* stop suspends; a statement of another block does not even reach the
\* breakpoint decision unless it is armed; STEP_INTO stays the command over
\* every step of the program that does not suspend; and a block entry is
\* never a step stop, under any command, and reaches the breakpoint
\* decision exactly when its position is armed.
C30_StepInto ==
  [][/\ (obs'.op = "statement" /\ currentCommand = "STEP_INTO") =>
          /\ obs'.stepStop <=> isPhysicalFile(Head(contexts).src)
          /\ (obs'.stepStop /\ isEnabled /\ ~interruptsPending) =>
               (obs'.prompts = 1 /\ pc' = "prompt")
          /\ (~obs'.stepStop /\ ~RDEBUG(State, obs'.target)) =>
               (obs'.bpCalls = 0 /\ pc' = "run")
     /\ (/\ currentCommand = "STEP_INTO"
         /\ obs'.op \in {"begin", "statement", "env"}
         /\ obs'.prompts = 0) => currentCommand' = "STEP_INTO"
     /\ obs'.op = "begin" =>
          /\ ~obs'.stepStop
          /\ (obs'.bpCalls = 1) <=> RDEBUG(State, obs'.target)]_vars

\* Under STEP_INTO a statement of a block that is in no physical file has
\* passed without a step stop in a frame whose marker is set.
C30_Witness ==
  /\ obs.op = "statement" /\ obs.cmd = "STEP_INTO" /\ ~obs.stepStop
  /\ currentCommand = "STEP_INTO" /\ pc = "run"
  /\ isEnabled /\ ~interruptsPending
  /\ ~Head(contexts).phys
  /\ Head(contexts).env # Nil /\ stopHereFlag[Head(contexts).env]

\* ------------------------------------------------------------ transparency
\* The values a statement can have (the nil value is Nil).
Values == {"a", "b"}

\* The activation of doBegin at the bottom of the chain is on top of it.
AtBottom == Len(contexts) = 1 /\ Head(contexts).kind = "block"

\* The interpreter evaluates a `{` call at top level through the patched
\* slot.
BeginBottom(srcrefs, counts) ==
  /\ Running /\ contexts = <<>> /\ funTab = debugDoBegin
  /\ \E srcref0 \in srcrefs : \E n \in counts :
     \E ch \in Choices([State EXCEPT !.contexts = <<OtherCtx>> \o @],
                       getBreakpointInfoAttrib(State, srcref0)) :
       Commit(doBeginEnter([Begin(State, "begin", NoKey)
                              EXCEPT !.obs.target = srcref0],
                           srcref0, n, ch))

\* That activation reaches its next statement.
DecideBottom(calls) ==
  /\ Running /\ AtBottom /\ obs.run.at = "decide"
  /\ \E srcref \in StatementSrcrefs(Head(contexts).src) :
     \E call \in calls :
     \E ch \in Choices(State, getBreakpointInfoAttrib(State, srcref)) :
       Commit(doBeginDecide(Begin(State, "statement", NoKey),
                            srcref, call, ch))

\* Rf_eval of the statement returns to that activation.
EvalBottom ==
  /\ Running /\ AtBottom /\ obs.run.at = "eval"
  /\ \E v \in Values : Commit(doBeginEval(Begin(State, "eval", NoKey), v))

\* That activation returns.
ReturnBottom ==
  /\ Running /\ AtBottom /\ obs.run.at = "return"
  /\ Commit(doBeginReturn(Begin(State, "return", NoKey)))

\* A block at top level under every command and several configurations of
\* a breakpoint, with the calls its statements make and the blocks entered
\* in them.
NextTransparent ==
  \/ Enable
  \/ AddBreakpoint({<<"a.r", 1>>})
  \/ SetInfo({<<"a.r", 1>>}, {<<"ERR", "ERR", FALSE>>})
  \/ SetCommand(Commands)
  \/ PromptReturn
  \/ BeginBottom({1, Internal}, 0..MaxStmts)
  \/ DecideBottom({CallExpr("f")})
  \/ EvalBottom
  \/ ReturnBottom
  \/ (AtBottom /\ obs.run.at = "eval" /\ PushCallTo({"f"}, {1}, 3))
  \/ (InCall /\ BeginBlock({1}, {0}, 3))
  \/ (Len(contexts) > 1 /\ Pop)

SpecTransparent == InitDecide /\ [][NextTransparent]_vars

\* The value of a block evaluated by the interpreter's own do_begin: the
\* value of its last statement, the nil value if it has none.
do_beginValue(vals) == IF vals = <<>> THEN Nil ELSE vals[Len(vals)]

\* C31: doBegin evaluates a statement only when its loop is at it, the
\* breakpoint decision of that statement has been made and the prompt, if
\* entered, has returned; it reaches the decision of a statement only when
\* all statements before it are evaluated; and when it returns it has
\* evaluated every statement of the block once, in source order, and its
\* value is the value of the last one, nil for an empty block.
C31_Transparent ==
  [][/\ obs'.op = "eval" =>
          LET r == obs.run
          IN /\ pc = "run" /\ r.at = "eval"
             /\ Head(contexts).left = r.n - r.i
             /\ Len(r.evals) = r.i - 1
             /\ obs'.run.evals = Append(r.evals, <<r.i, obs'.run.s>>)
     /\ (obs'.op = "statement" /\ AtBottom) =>
          /\ Len(obs.run.evals) = obs.run.i - 1
          /\ Head(contexts).left = obs.run.n - obs.run.i + 1
     /\ obs'.op = "return" =>
          LET r == obs.run
          IN /\ Len(r.evals) = r.n /\ Head(contexts).left = 0
             /\ \A k \in 1..r.n : r.evals[k][1] = k
             /\ obs'.value = do_beginValue([k \in 1..r.n |-> r.evals[k][2]])
             /\ contexts' = Tail(contexts)]_vars

\* A block of at least two statements with different values has returned
\* the value of the last one after it suspended at two of its decisions.
C31_Witness ==
  /\ obs.op = "return" /\ obs.run.n >= 2
  /\ obs.run.evals[1][2] # obs.run.evals[obs.run.n][2]
  /\ obs.value = obs.run.evals[obs.run.n][2]
  /\ obs.run.prompts >= 2

====
